---- MODULE Spec2Model ----
(***************************************************************************)
(* Model of src/src/check_run_results.py: the validation of dbt            *)
(* run_results shards (assert_success and _download_run_results_from_s3),  *)
(* the environment rewriter (_apply_env_to_model_id), the restricted YAML  *)
(* scanner (_parse_unique_ids_yaml), the helpers _normalize_unique_id,     *)
(* _parse_unique_ids and _index_statuses, and main, which resolves the     *)
(* identifiers and calls assert_success.                                   *)
(*                                                                         *)
(* Python strings that the code only compares for equality are TLA+        *)
(* strings; strings that the code takes apart (regular expressions, split, *)
(* sorted) are sequences of one-character strings.                         *)
(***************************************************************************)
EXTENDS Integers, Sequences, FiniteSets, TLC

VARIABLES
    \* ---- assert_success / _download_run_results_from_s3
    unique_ids,      \* list(unique_ids), the requested identifiers
    deploy_env,      \* argument deploy_env (None when absent)
    workflow_name,   \* argument workflow_name (None when absent)
    bucket,          \* the keys of the objects of the artifact repository
    pc,              \* position of the call of assert_success
    sorted_keys,     \* sorted(keys): the selected keys in download order
    run_results,     \* run_results / run_results_list: the parsed documents
    ops,             \* the operations performed on the artifact repository
    folded,          \* number of documents the fold loop has processed
    success_map,     \* success_map
    last_status,     \* last_status
    missing,         \* missing
    failed,          \* failed
    message,         \* text of the exception raised or of the line printed
    tmp_dir,         \* the temporary directory of line 148 on local storage
    staged,          \* the names of the files in the temporary directory
    \* ---- _apply_env_to_model_id
    env_pc, env_id, env_label, env_out,
    \* ---- _parse_unique_ids_yaml
    y_pc, y_target, y_read, y_ids, y_src, y_opener,
    in_target_block, base_indent, models_indent, in_dags_section, dags_indent,
    \* ---- a call of _normalize_unique_id, _parse_unique_ids or
    \*      _index_statuses: the function, its argument, what it returns
    fn_pc, fn_name, fn_arg, fn_ret,
    \* ---- main
    m_pc,                 \* position of the run of main
    args_unique_ids,      \* args.unique_ids (the empty list when None)
    args_unique_id_yaml,  \* args.unique_id_yaml (None when absent)
    default_exists,       \* DEFAULT_UNIQUE_ID_YAML.exists()
    environ,              \* os.environ, at the three names main reads
    yaml_path,            \* yaml_path
    main_unique_ids       \* unique_ids of main

vars == <<unique_ids, deploy_env, workflow_name, bucket, pc, sorted_keys,
          run_results, ops, folded, success_map, last_status, missing, failed,
          message, tmp_dir, staged,
          env_pc, env_id, env_label, env_out,
          y_pc, y_target, y_read, y_ids, y_src, y_opener,
          in_target_block, base_indent, models_indent, in_dags_section,
          dags_indent, fn_pc, fn_name, fn_arg, fn_ret,
          m_pc, args_unique_ids, args_unique_id_yaml, default_exists,
          environ, yaml_path, main_unique_ids>>

flowVars == <<unique_ids, deploy_env, workflow_name, bucket, pc, sorted_keys,
              run_results, ops, folded, success_map, last_status, missing,
              failed, message, tmp_dir, staged>>
envVars  == <<env_pc, env_id, env_label, env_out>>
yamlVars == <<y_pc, y_target, y_read, y_ids, y_src, y_opener,
              in_target_block, base_indent, models_indent, in_dags_section,
              dags_indent>>
fnVars   == <<fn_pc, fn_name, fn_arg, fn_ret>>
mainVars == <<m_pc, args_unique_ids, args_unique_id_yaml, default_exists,
              environ, yaml_path, main_unique_ids>>

\* Python's None
None == "<None>"

\* None in a variable that otherwise holds an indentation (lines 64-67)
NoIndent == -1

(***************************************************************************)
(* Bounds of the model                                                     *)
(***************************************************************************)
MaxIds     == 2   \* length of the requested identifier list
MaxResults == 1   \* records in the results array of one document
MaxBody    == 6   \* characters of an identifier after its first segment
MaxLines   == 5   \* lines of a structured-text document
MaxValue   == 4   \* characters of a raw value given to _normalize_unique_id
MaxArgs    == 2   \* raw values given to _parse_unique_ids
MaxArgLen  == 2   \* characters of a raw value given to _parse_unique_ids
MaxRecords == 3   \* records of a document given to _index_statuses
MaxFileLines == 3 \* lines of the structured-text document that main reads
MaxDocs    == 2   \* documents reconciled in two orders

(***************************************************************************)
(* Helpers on sequences and dicts                                          *)
(***************************************************************************)
Range(s) == {s[i] : i \in DOMAIN s}

SeqsUpTo(S, n) == UNION {[1..k -> S] : k \in 0..n}

EmptyDict == [x \in {} |-> None]

\* d.get(k)
Get(d, k) == IF k \in DOMAIN d THEN d[k] ELSE None

\* d[k] = v
Put(d, k, v) == [x \in DOMAIN d \cup {k} |-> IF x = k THEN v ELSE d[x]]

(***************************************************************************)
(* Python str as a sequence of characters: comparison and decimal digits   *)
(***************************************************************************)
\* the ASCII characters of code points 32..95, in code-point order
AsciiLow ==
  <<
    " ", "!", "\"", "#", "$", "%", "&", "'", "(", ")", "*", "+",
    ",", "-", ".", "/", "0", "1", "2", "3", "4", "5", "6", "7",
    "8", "9", ":", ";", "<", "=", ">", "?", "@", "A", "B", "C",
    "D", "E", "F", "G", "H", "I", "J", "K", "L", "M", "N", "O",
    "P", "Q", "R", "S", "T", "U", "V", "W", "X", "Y", "Z", "[",
    "\\", "]", "^", "_"
  >>

\* the ASCII characters of code points 97..126, in code-point order
AsciiHigh ==
  <<
    "a", "b", "c", "d", "e", "f", "g", "h", "i", "j", "k", "l",
    "m", "n", "o", "p", "q", "r", "s", "t", "u", "v", "w", "x",
    "y", "z", "{", "|", "}", "~"
  >>

\* ord(c)
Ord(c) ==
    IF c \in {AsciiLow[i] : i \in DOMAIN AsciiLow}
    THEN 31 + (CHOOSE i \in DOMAIN AsciiLow : AsciiLow[i] = c)
    ELSE 96 + (CHOOSE i \in DOMAIN AsciiHigh : AsciiHigh[i] = c)

\* a < b on str: lexicographic by code point, a proper prefix sorts first
RECURSIVE StrLess(_, _)
StrLess(a, b) ==
    IF b = <<>> THEN FALSE
    ELSE IF a = <<>> THEN TRUE
    ELSE IF Head(a) # Head(b) THEN Ord(Head(a)) < Ord(Head(b))
    ELSE StrLess(Tail(a), Tail(b))

\* insert k into the sorted list s, after the elements that are not greater
RECURSIVE InsertSorted(_, _)
InsertSorted(s, k) ==
    IF s = <<>> THEN <<k>>
    ELSE IF StrLess(k, Head(s)) THEN <<k>> \o s
    ELSE <<Head(s)>> \o InsertSorted(Tail(s), k)

\* sorted(keys)
RECURSIVE Sorted(_)
Sorted(keys) ==
    IF keys = <<>> THEN <<>>
    ELSE InsertSorted(Sorted(SubSeq(keys, 1, Len(keys) - 1)), keys[Len(keys)])

DigitChars == <<"0", "1", "2", "3", "4", "5", "6", "7", "8", "9">>

IsDigit(c) == c \in Range(DigitChars)

\* str(n) for n >= 0
RECURSIVE Dec(_)
Dec(n) == IF n < 10 THEN <<DigitChars[n + 1]>>
          ELSE Dec(n \div 10) \o <<DigitChars[(n % 10) + 1]>>

\* s.endswith(suffix)
EndsWith(s, suffix) ==
    /\ Len(s) >= Len(suffix)
    /\ SubSeq(s, Len(s) - Len(suffix) + 1, Len(s)) = suffix

\* s.startswith(prefix)
StartsWith(s, prefix) ==
    /\ Len(s) >= Len(prefix)
    /\ SubSeq(s, 1, Len(prefix)) = prefix

(***************************************************************************)
(* The artifact repository: a bucket of objects. The state holds the keys  *)
(* of the objects, each the sequence of its characters; the content of an  *)
(* object is an input of the step that downloads it.                       *)
(***************************************************************************)
S_run_artefacts ==
    <<"/", "r", "u", "n", "_", "a", "r", "t", "e", "f", "a", "c", "t", "s", "/">>
S_latest_target ==
    <<"/", "l", "a", "t", "e", "s", "t", "/", "t", "a", "r", "g", "e", "t", "/">>

\* the characters of the environment and workflow names of the model
Chars ==
    ("dev" :> <<"d", "e", "v">>) @@ ("prod" :> <<"p", "r", "o", "d">>)
        @@ ("wf" :> <<"w", "f">>) @@ ("wf_b" :> <<"w", "f", "_", "b">>)

\* line 128: prefix
TargetPrefix(env, workflow) ==
    Chars[env] \o S_run_artefacts \o Chars[workflow] \o S_latest_target

S_run_results_ == <<"r", "u", "n", "_", "r", "e", "s", "u", "l", "t", "s", "_">>
S_run_results_json ==
    <<"r", "u", "n", "_", "r", "e", "s", "u", "l", "t", "s", ".", "j", "s", "o", "n">>
S_dot_json == <<".", "j", "s", "o", "n">>
S_manifest_json ==
    <<"m", "a", "n", "i", "f", "e", "s", "t", ".", "j", "s", "o", "n">>

\* the key of shard n as the upstream writer names it: run_results_<n>.json
\* under the target prefix of environment dev and workflow wf
ShardKey(n) == TargetPrefix("dev", "wf") \o S_run_results_ \o Dec(n) \o S_dot_json

ManifestKey == TargetPrefix("dev", "wf") \o S_manifest_json

\* shard numbers that occur in a listing
ShardNumbers == {2, 10}

\* the keys of the objects a bucket can hold
KeyUniverse == {ShardKey(n) : n \in ShardNumbers} \cup {ManifestKey}

\* the buckets of a call
Buckets == SUBSET KeyUniverse

\* paginate(Bucket, Prefix): the keys of the bucket that start with prefix
KeysUnder(b, prefix) == {k \in b : StartsWith(k, prefix)}

\* a listing of the keys S: the keys of the pages' Contents, in the order
\* the store gives them
Listings(S) ==
    {l \in [1..Cardinality(S) -> S] :
        \A i, j \in DOMAIN l : i # j => l[i] # l[j]}

\* re.search(r"run_results_\d+\.json$", key)
\* ($ anchors the match: .json starts at j, the last place it fits)
MatchesShardPattern(key) ==
    LET j == Len(key) - Len(S_dot_json) + 1
    IN  /\ j >= 1
        /\ SubSeq(key, j, Len(key)) = S_dot_json
        /\ \E i \in 1..Len(key) :
              /\ i + Len(S_run_results_) < j
              /\ SubSeq(key, i, i + Len(S_run_results_) - 1) = S_run_results_
              /\ \A m \in (i + Len(S_run_results_))..(j - 1) : IsDigit(key[m])

\* (a variant that leaves out the branch of lines 139-140)
Selected_ShardsOnly(key) == MatchesShardPattern(key)

\* lines 137-140: is the key appended to keys

Selected(key) ==
    \/ MatchesShardPattern(key)
    \/ EndsWith(key, S_run_results_json)

\* lines 131-140: keys, the selected keys in listing order
SelectKeys(listing) == SelectSeq(listing, Selected)

(***************************************************************************)
(* Report documents                                                        *)
(***************************************************************************)
Ids == {"model.foo", "model.bar"}

Statuses == {"success", "error", "Success"}

\* a result record: a JSON object that has, or lacks, unique_id and status
RecordSet ==
    [unique_id : Ids, status : Statuses]
        \cup {[status |-> "success"], [unique_id |-> "model.foo"]}

\* completed_at of a timing entry, as the hour of the day
Times == {8, 12}

\* a document whose one record carries a timing entry
TimedDocs ==
    {[results |-> <<[unique_id |-> "model.foo", status |-> "success",
                     timing |-> <<[completed_at |-> t]>>]>>] : t \in Times}

\* a parsed document: a JSON object with a results array, or without one
Docs ==
    {[results |-> r] : r \in SeqsUpTo(RecordSet, MaxResults)}
        \cup TimedDocs
        \cup {[metadata |-> "m"]}

\* the content of an object that is not a JSON text
NotJson == [bytes |-> "{"]

\* what an object of the bucket can contain: the JSON text of a document
\* (modelled by the document) or bytes that json.load rejects
Contents == Docs \cup {NotJson}

\* lines 117-119: json.load of the downloaded file
LoadRunResults(content) ==
    IF "bytes" \in DOMAIN content
    THEN [ok |-> FALSE, error |-> "JSONDecodeError"]
    ELSE [ok |-> TRUE, doc |-> content]

\* run_results.get("results", [])
ResultsOf(doc) == IF "results" \in DOMAIN doc THEN doc.results ELSE <<>>

\* (a variant where the first record of an identifier wins)
IndexOne_FirstWins(statuses, result) ==
    LET unique_id == Get(result, "unique_id")
        status    == Get(result, "status")
    IN  IF unique_id # None /\ status # None /\ unique_id \notin DOMAIN statuses
        THEN Put(statuses, unique_id, status)
        ELSE statuses

\* lines 161-164: one iteration of the loop of _index_statuses
IndexOne(statuses, result) ==
    LET unique_id == Get(result, "unique_id")
        status    == Get(result, "status")
    IN  IF unique_id # None /\ status # None
        THEN Put(statuses, unique_id, status)
        ELSE statuses

RECURSIVE IndexLoop(_, _)
IndexLoop(statuses, results) ==
    IF results = <<>> THEN statuses
    ELSE IndexLoop(IndexOne(statuses, Head(results)), Tail(results))

\* _index_statuses(run_results)
IndexStatuses(doc) == IndexLoop(EmptyDict, ResultsOf(doc))

(***************************************************************************)
(* assert_success: the fold of one document (lines 185-192)                *)
(***************************************************************************)
\* a comparison that ignores the case of the first letter
IsSuccess_AnyCase(status) == status \in {"success", "Success"}

\* line 191: does this status set the success flag
IsSuccess(status) == status = "success"

\* the flag follows the latest status instead of being sticky
FoldOne_Overwrite(st, statuses, unique_id) ==
    LET status == Get(statuses, unique_id)
    IN  IF status = None THEN st
        ELSE [last |-> Put(st.last, unique_id, status),
              succ |-> Put(st.succ, unique_id, IsSuccess(status))]

\* lines 187-192: one iteration of the inner loop, on the pair
\* st = [last |-> last_status, succ |-> success_map]
FoldOne(st, statuses, unique_id) ==
    LET status == Get(statuses, unique_id)
    IN  IF status = None THEN st
        ELSE [last |-> Put(st.last, unique_id, status),
              succ |-> IF IsSuccess(status)
                       THEN Put(st.succ, unique_id, TRUE)
                       ELSE st.succ]

RECURSIVE FoldIds(_, _, _)
FoldIds(st, statuses, ids) ==
    IF ids = <<>> THEN st
    ELSE FoldIds(FoldOne(st, statuses, Head(ids)), statuses, Tail(ids))

(***************************************************************************)
(* assert_success: the classification (lines 194-206)                      *)
(***************************************************************************)
\* lines 198-202: the identifiers appended to missing, in requested order
MissingOf(ids, last) == SelectSeq(ids, LAMBDA u : Get(last, u) = None)

\* the loop without the continue of line 202: a missing identifier falls
\* through to the test of line 205
RECURSIVE FailedOf_NoContinue(_, _, _)
FailedOf_NoContinue(ids, last, succ) ==
    IF ids = <<>> THEN <<>>
    ELSE LET u == Head(ids)
             rest == FailedOf_NoContinue(Tail(ids), last, succ)
         IN  IF ~succ[u]
             THEN <<(<<u, Get(last, u)>>)>> \o rest
             ELSE rest

\* lines 203-206: the (unique_id, status) pairs appended to failed
RECURSIVE FailedOf(_, _, _)
FailedOf(ids, last, succ) ==
    IF ids = <<>> THEN <<>>
    ELSE LET u == Head(ids)
             rest == FailedOf(Tail(ids), last, succ)
         IN  IF Get(last, u) # None /\ ~succ[u]
             THEN <<(<<u, last[u]>>)>> \o rest
             ELSE rest

\* line 208: is the validation error raised
Raises(miss, fail) == miss # <<>> \/ fail # <<>>

\* a test for None that lets the empty string through
Falsy_NoneOnly(s) == s = None

\* line 178: not deploy_env, not workflow_name
Falsy(s) == s = None \/ s = ""

\* the listing is never found empty
NoKeys_Never(keys) == FALSE

\* line 142: not keys
NoKeys(keys) == keys = <<>>

\* (a variant that swallows the exception and tries the key again)
AfterFailure_Retry(error) == "download"

\* lines 148-153: no handler surrounds download_file and _load_run_results,
\* an exception of either ends the call with that exception
AfterFailure(error) == error

\* sep.join(items) for a list of strings
RECURSIVE Join(_, _)
Join(items, sep) ==
    IF items = <<>> THEN ""
    ELSE IF Len(items) = 1 THEN items[1]
    ELSE items[1] \o sep \o Join(Tail(items), sep)

\* (a variant that reports the failed identifiers before the missing ones)
ErrorParts_FailedFirst(miss, fail) ==
    (IF fail # <<>>
     THEN <<"Non-success status(es): "
              \o Join([i \in DOMAIN fail |-> fail[i][1] \o "=" \o fail[i][2]],
                      ", ")>>
     ELSE <<>>)
    \o (IF miss # <<>>
        THEN <<"Missing unique_id(s): " \o Join(miss, ", ")>>
        ELSE <<>>)

\* lines 209-214: parts
ErrorParts(miss, fail) ==
    (IF miss # <<>>
     THEN <<"Missing unique_id(s): " \o Join(miss, ", ")>>
     ELSE <<>>)
    \o (IF fail # <<>>
        THEN <<"Non-success status(es): "
                 \o Join([i \in DOMAIN fail |-> fail[i][1] \o "=" \o fail[i][2]],
                         ", ")>>
        ELSE <<>>)

\* line 215: the text of the RuntimeError
ErrorMessage(miss, fail) == Join(ErrorParts(miss, fail), "; ")

\* line 217: the line printed
SuccessLine(n) ==
    "All " \o ToString(n) \o " unique_id(s) finished with status=success."

\* lines 179-181
ValueErrorText ==
    "DEPLOY_ENV and WORKFLOW_NAME are required to locate run_results files."

\* lines 143-145
NotFoundText == "No run_results_{n}.json files found in S3 target prefix."

\* Path(key).name: what follows the last "/" of the key
PathName(key) ==
    LET slashes == {i \in DOMAIN key : key[i] = "/"}
        last == IF slashes = {} THEN 0
                ELSE CHOOSE i \in slashes : \A j \in slashes : i >= j
    IN  SubSeq(key, last + 1, Len(key))

\* (a variant that takes the object out of the bucket)
AfterDownloadFile_Move(b, key) == b \ {key}

\* line 152: download_file copies the object to the local path; the bucket
\* keeps it
AfterDownloadFile(b, key) == b

\* (a variant that removes the directory only when no exception is raised)
LeaveWith_KeepOnError(exc) == IF exc = None THEN "removed" ELSE "present"

\* line 148: the with statement is left, by the end of its body (exc is
\* None) or by an exception; TemporaryDirectory.__exit__ removes the
\* directory and what it holds in both cases
LeaveWith(exc) == "removed"

\* the files of a directory in state dir that held files
FilesLeft(dir, files) == IF dir = "present" THEN files ELSE {}

\* line 149: the order in which the selected keys are downloaded
DownloadOrder(keys) == Sorted(keys)

(***************************************************************************)
(* Initial values of the parts of the state                                *)
(***************************************************************************)
FlowIdle ==
    /\ pc = "start"
    /\ sorted_keys = <<>>
    /\ run_results = <<>>
    /\ ops = <<>>
    /\ folded = 0
    /\ success_map = EmptyDict
    /\ last_status = EmptyDict
    /\ missing = <<>>
    /\ failed = <<>>
    /\ message = None
    /\ tmp_dir = None
    /\ staged = {}

EnvIdle ==
    /\ env_pc = "idle"
    /\ env_id = <<>>
    /\ env_label = <<>>
    /\ env_out = <<>>

YamlIdle ==
    /\ y_pc = "idle"
    /\ y_target = <<>>
    /\ y_read = <<>>
    /\ y_ids = <<>>
    /\ y_src = <<>>
    /\ y_opener = 0
    /\ in_target_block = FALSE
    /\ base_indent = NoIndent
    /\ models_indent = NoIndent
    /\ in_dags_section = FALSE
    /\ dags_indent = NoIndent

FnIdle ==
    /\ fn_pc = "idle"
    /\ fn_name = None
    /\ fn_arg = <<>>
    /\ fn_ret = <<>>

\* main is not running
NoEnviron ==
    [DATASET_TARGET |-> None, DEPLOY_ENV |-> None, WORKFLOW_NAME |-> None]

MainIdle ==
    /\ m_pc = "idle"
    /\ args_unique_ids = <<>>
    /\ args_unique_id_yaml = None
    /\ default_exists = FALSE
    /\ environ = NoEnviron
    /\ yaml_path = None
    /\ main_unique_ids = <<>>

\* a call assert_success(unique_ids, deploy_env, workflow_name)
Init ==
    /\ unique_ids \in SeqsUpTo(Ids, MaxIds)
    /\ deploy_env \in {None, "", "dev"}
    /\ workflow_name \in {None, "", "wf"}
    /\ bucket \in Buckets
    /\ FlowIdle
    /\ MainIdle
    /\ EnvIdle
    /\ YamlIdle
    /\ FnIdle

(***************************************************************************)
(* assert_success and _download_run_results_from_s3, step by step          *)
(***************************************************************************)
\* lines 174-181: the reconciliation state, then the configuration check
Start ==
    /\ pc = "start"
    /\ success_map' = [u \in Range(unique_ids) |-> FALSE]
    /\ last_status' = EmptyDict
    /\ IF Falsy(deploy_env) \/ Falsy(workflow_name)
       THEN pc' = "ValueError" /\ message' = ValueErrorText
       ELSE pc' = "list" /\ UNCHANGED message
    /\ UNCHANGED <<bucket, tmp_dir, staged>>
    /\ UNCHANGED <<unique_ids, deploy_env, workflow_name, sorted_keys,
                   run_results, ops, folded, missing, failed>>
    /\ UNCHANGED <<envVars, yamlVars, fnVars, mainVars>>

\* lines 128-149: list the prefix, select the keys, raise when there is
\* none, else create the temporary directory
ListObjects ==
    /\ pc = "list"
    /\ LET prefix == TargetPrefix(deploy_env, workflow_name)
       IN  \E listing \in Listings(KeysUnder(bucket, prefix)) :
             LET keys == SelectKeys(listing)
             IN  /\ ops' = Append(ops, [op |-> "list", prefix |-> prefix,
                                        listed |-> Range(listing)])
                 /\ IF NoKeys(keys)
                    THEN /\ pc' = "FileNotFoundError"
                         /\ message' = NotFoundText
                         /\ sorted_keys' = <<>>
                         /\ UNCHANGED <<tmp_dir, staged>>
                    ELSE /\ pc' = "download"
                         /\ UNCHANGED message
                         /\ sorted_keys' = DownloadOrder(keys)
                         /\ tmp_dir' = "present"
                         /\ staged' = {}
    /\ UNCHANGED bucket
    /\ UNCHANGED <<unique_ids, deploy_env, workflow_name, run_results, folded,
                   success_map, last_status, missing, failed>>
    /\ UNCHANGED <<envVars, yamlVars, fnVars, mainVars>>

\* lines 149-153: download the next key into the temporary directory and
\* parse it; download_file or json.load may raise, and the exception leaves
\* the with statement. The operation is recorded with its outcome.
Download ==
    /\ pc = "download"
    /\ Len(run_results) < Len(sorted_keys)
    /\ LET key == sorted_keys[Len(run_results) + 1]
           done(outcome) == [op |-> "download", key |-> key,
                             outcome |-> outcome]
           dest == PathName(key)
       IN  \/ /\ ops' = Append(ops, done("ClientError"))
              /\ pc' = AfterFailure("ClientError")
              /\ tmp_dir' = LeaveWith("ClientError")
              /\ staged' = FilesLeft(tmp_dir', staged)
              /\ UNCHANGED run_results
           \/ \E content \in Contents :
                LET loaded == LoadRunResults(content)
                IN  IF loaded.ok
                    THEN /\ ops' = Append(ops, done("ok"))
                         /\ run_results' = Append(run_results, loaded.doc)
                         /\ staged' = staged \cup {dest}
                         /\ UNCHANGED <<pc, tmp_dir>>
                    ELSE /\ ops' = Append(ops, done(loaded.error))
                         /\ pc' = AfterFailure(loaded.error)
                         /\ tmp_dir' = LeaveWith(loaded.error)
                         /\ staged' = FilesLeft(tmp_dir', staged \cup {dest})
                         /\ UNCHANGED run_results
    /\ bucket' = AfterDownloadFile(bucket, sorted_keys[Len(run_results) + 1])
    /\ UNCHANGED message
    /\ UNCHANGED <<unique_ids, deploy_env, workflow_name, sorted_keys,
                   folded, success_map, last_status, missing, failed>>
    /\ UNCHANGED <<envVars, yamlVars, fnVars, mainVars>>

\* lines 148, 155 and 182: the with statement is left and the list of
\* documents is returned to assert_success
ReturnRunResults ==
    /\ pc = "download"
    /\ Len(run_results) = Len(sorted_keys)
    /\ pc' = "fold"
    /\ tmp_dir' = LeaveWith(None)
    /\ staged' = FilesLeft(tmp_dir', staged)
    /\ UNCHANGED <<bucket, message>>
    /\ UNCHANGED <<unique_ids, deploy_env, workflow_name, sorted_keys,
                   run_results, ops, folded, success_map, last_status,
                   missing, failed>>
    /\ UNCHANGED <<envVars, yamlVars, fnVars, mainVars>>

\* lines 184-192: fold the next document into last_status and success_map
FoldDoc ==
    /\ pc = "fold"
    /\ folded < Len(run_results)
    /\ LET statuses == IndexStatuses(run_results[folded + 1])
           st == FoldIds([last |-> last_status, succ |-> success_map],
                         statuses, unique_ids)
       IN  /\ last_status' = st.last
           /\ success_map' = st.succ
    /\ folded' = folded + 1
    /\ UNCHANGED <<bucket, message, tmp_dir, staged>>
    /\ UNCHANGED <<unique_ids, deploy_env, workflow_name, pc, sorted_keys,
                   run_results, ops, missing, failed>>
    /\ UNCHANGED <<envVars, yamlVars, fnVars, mainVars>>

\* lines 194-217: classify the identifiers, raise or print the confirmation
Verdict ==
    /\ pc = "fold"
    /\ folded = Len(run_results)
    /\ missing' = MissingOf(unique_ids, last_status)
    /\ failed' = FailedOf(unique_ids, last_status, success_map)
    /\ IF Raises(missing', failed')
       THEN /\ pc' = "RuntimeError"
            /\ message' = ErrorMessage(missing', failed')
       ELSE /\ pc' = "returned"
            /\ message' = SuccessLine(Len(unique_ids))
    /\ UNCHANGED <<bucket, tmp_dir, staged>>
    /\ UNCHANGED <<unique_ids, deploy_env, workflow_name, sorted_keys,
                   run_results, ops, folded, success_map, last_status>>
    /\ UNCHANGED <<envVars, yamlVars, fnVars, mainVars>>

Next ==
    \/ Start
    \/ ListObjects
    \/ Download
    \/ ReturnRunResults
    \/ FoldDoc
    \/ Verdict

Spec == Init /\ [][Next]_vars

(***************************************************************************)
(* Properties of assert_success                                            *)
(***************************************************************************)
FoldStarted == pc \in {"fold", "returned", "RuntimeError"}
Ended == pc \in {"returned", "RuntimeError"}

\* a record that has both fields
ValidRecord(r) == "unique_id" \in DOMAIN r /\ "status" \in DOMAIN r

\* the Status Index of doc gives identifier u the status s: s is the status
\* of the last record of doc that has both fields and names u
DocGives(doc, u, s) ==
    /\ "results" \in DOMAIN doc
    /\ \E i \in DOMAIN doc.results :
         /\ ValidRecord(doc.results[i])
         /\ doc.results[i].unique_id = u
         /\ doc.results[i].status = s
         /\ \A j \in DOMAIN doc.results :
              j > i => ~(ValidRecord(doc.results[j])
                           /\ doc.results[j].unique_id = u)

DocHasId(doc, u) == \E s \in Statuses : DocGives(doc, u, s)

\* u has status exactly "success" in one of the first n documents
SuccessWithin(u, n) ==
    \E k \in 1..n : DocGives(run_results[k], u, "success")

FoundWithin(u, n) == \E k \in 1..n : DocHasId(run_results[k], u)

\* C1: sticky success. During the fold a requested identifier that one of the
\* documents folded so far gives status "success" has its flag set, and a flag
\* that is set is never cleared by a later step, whatever the later statuses.
StickySuccess ==
    /\ [](FoldStarted =>
            \A u \in Range(unique_ids) :
                SuccessWithin(u, folded) => success_map[u])
    /\ [][\A u \in DOMAIN success_map :
            success_map[u] => (u \in DOMAIN success_map' /\ success_map'[u])]_vars

\* C1 witness: the call returned although the last status seen for a
\* requested identifier is "error": success came first, the error later
StickySuccessWitness ==
    /\ pc = "returned"
    /\ \E u \in Range(unique_ids) :
         /\ last_status[u] = "error"
         /\ DocGives(run_results[1], u, "success")
         /\ DocGives(run_results[2], u, "error")

\* C2: assert_success returns normally exactly when every requested
\* identifier has status exactly "success" in the Status Index of at least
\* one document, and raises RuntimeError in every other case.
VerdictIffAllSuccess ==
    Ended =>
        /\ folded = Len(run_results)
        /\ run_results # <<>>
        /\ (pc = "returned") <=>
              \A u \in Range(unique_ids) : SuccessWithin(u, Len(run_results))
        /\ (pc = "RuntimeError") <=>
              \E u \in Range(unique_ids) : ~SuccessWithin(u, Len(run_results))

\* C2 witness: a normal return for two different requested identifiers
VerdictWitness ==
    /\ pc = "returned"
    /\ Len(unique_ids) = 2
    /\ unique_ids[1] # unique_ids[2]

\* C3: after the fold every requested identifier is in exactly one class:
\* missing (in no document's index), failed (in an index, never with
\* status "success") or successful (neither list).
MissingFailedPartition ==
    Ended =>
        \A u \in Range(unique_ids) :
            LET n == Len(run_results)
                inMissing == u \in Range(missing)
                inFailed == \E f \in Range(failed) : f[1] = u
            IN  /\ inMissing <=> ~FoundWithin(u, n)
                /\ inFailed <=> (FoundWithin(u, n) /\ ~SuccessWithin(u, n))
                /\ ~(inMissing /\ inFailed)
                /\ (~inMissing /\ ~inFailed) <=> SuccessWithin(u, n)

\* C3 witness: requested [model.foo, model.bar]; model.foo is error in the
\* first document and success in the second, model.bar is in neither
MissingFailedWitness ==
    /\ pc = "RuntimeError"
    /\ unique_ids = <<"model.foo", "model.bar">>
    /\ Len(run_results) = 2
    /\ DocGives(run_results[1], "model.foo", "error")
    /\ DocGives(run_results[2], "model.foo", "success")
    /\ ~FoundWithin("model.bar", 2)
    /\ missing = <<"model.bar">>
    /\ failed = <<>>

\* the keys downloaded so far, in download order
DownloadedKeys ==
    LET d == SelectSeq(ops, LAMBDA o : o.op = "download")
    IN  [i \in DOMAIN d |-> d[i].key]

ListCalls == SelectSeq(ops, LAMBDA o : o.op = "list")

\* C8: when the listing holds no selected key the call ends with
\* FileNotFoundError: nothing was downloaded, no status was folded, and no
\* verdict (success or validation error) comes from an empty set of documents.
NotFoundIsFatal ==
    /\ (ListCalls # <<>> /\ \A k \in ListCalls[1].listed : ~Selected(k))
          => /\ pc = "FileNotFoundError"
             /\ DownloadedKeys = <<>>
             /\ run_results = <<>>
             /\ folded = 0
             /\ last_status = EmptyDict
             /\ \A u \in DOMAIN success_map : ~success_map[u]
             /\ missing = <<>> /\ failed = <<>>
    /\ pc = "FileNotFoundError"
          => (ListCalls # <<>> /\ \A k \in ListCalls[1].listed : ~Selected(k))
    /\ Ended => run_results # <<>>

\* C8 witness: the prefix holds a key, but none that is selected
NotFoundWitness ==
    /\ pc = "FileNotFoundError"
    /\ unique_ids # <<>>
    /\ ListCalls[1].listed = {ManifestKey}

\* C9: when deploy_env or workflow_name is absent or empty the call ends
\* with ValueError and the repository is neither listed nor downloaded from.
ConfigErrorFirst ==
    ((deploy_env \in {None, ""} \/ workflow_name \in {None, ""}) /\ pc # "start")
        => /\ pc = "ValueError"
           /\ ops = <<>>
           /\ run_results = <<>>

\* C9 witness: an empty workflow_name with a given deploy_env
ConfigErrorWitness ==
    /\ pc = "ValueError"
    /\ deploy_env = "dev"
    /\ workflow_name = ""
    /\ unique_ids # <<>>

\* C10: the returned documents are in attempt order: for shards i < j (as
\* numbers) that were both selected, the document of shard i is at an
\* earlier position of the returned list than the document of shard j.
ShardOrderIsNumeric ==
    FoldStarted =>
        \A i, j \in ShardNumbers :
            \A a, b \in DOMAIN run_results :
                (i < j /\ DownloadedKeys[a] = ShardKey(i)
                       /\ DownloadedKeys[b] = ShardKey(j)) => a < b

(***************************************************************************)
(* _apply_env_to_model_id: identifiers and labels are character sequences  *)
(***************************************************************************)
S_model_dot == <<"m", "o", "d", "e", "l", ".">>
S_test_dot == <<"t", "e", "s", "t", ".">>
S_prod == <<"p", "r", "o", "d">>
S_dev == <<"d", "e", "v">>
S_Prod == <<"P", "r", "o", "d">>
S_dbt == <<"_", "d", "b", "t">>
S_uu == <<"_", "_">>
S_example_id == <<"m", "o", "d", "e", "l", ".", "d", "b", ".", "b", "a", "s", "e", "_", "_", "r", "e", "s", "t">>

\* deploy_env is None: a value that is no string
NoLabel == <<None>>

\* the labels a call is made with
EnvLabels == {NoLabel, <<>>, S_prod, S_dev, S_Prod}

\* the identifiers a call is made with
EnvAlphabet == {"a", ".", "_"}
EnvIds ==
    {p \o b : p \in {S_model_dot, S_test_dot, <<>>},
              b \in SeqsUpTo(EnvAlphabet, MaxBody)}
        \cup {S_example_id}

\* s.find(sub) + 1: the first position at which sub occurs in s, 0 if none
Find(s, sub) ==
    LET hits == {i \in 1..(Len(s) - Len(sub) + 1) :
                    SubSeq(s, i, i + Len(sub) - 1) = sub}
    IN  IF hits = {} THEN 0
        ELSE CHOOSE i \in hits : \A j \in hits : i <= j

\* s.rfind(sub) + 1: the last position at which sub occurs in s, 0 if none
RFind(s, sub) ==
    LET hits == {i \in 1..(Len(s) - Len(sub) + 1) :
                    SubSeq(s, i, i + Len(sub) - 1) = sub}
    IN  IF hits = {} THEN 0
        ELSE CHOOSE i \in hits : \A j \in hits : i >= j

\* a pattern whose last group also takes dots: ^model\.([^.]+)\.(.+)$
ModelMatch_DotsInName(unique_id) ==
    LET p == Len(S_model_dot)
        tail == SubSeq(unique_id, p + 1, Len(unique_id))
        d == Find(tail, <<".">>)
    IN  IF /\ Len(unique_id) >= p
           /\ SubSeq(unique_id, 1, p) = S_model_dot
           /\ d > 1
           /\ d < Len(tail)
        THEN [ok |-> TRUE,
              database_name |-> SubSeq(tail, 1, d - 1),
              table_name |-> SubSeq(tail, d + 1, Len(tail))]
        ELSE [ok |-> FALSE]

\* line 45: re.match(r"^model\.([^.]+)\.([^.]+)$", unique_id) and its groups
ModelMatch(unique_id) ==
    LET p == Len(S_model_dot)
        tail == SubSeq(unique_id, p + 1, Len(unique_id))
        d == Find(tail, <<".">>)
    IN  IF /\ Len(unique_id) >= p
           /\ SubSeq(unique_id, 1, p) = S_model_dot
           /\ d > 1
           /\ d < Len(tail)
           /\ Find(SubSeq(tail, d + 1, Len(tail)), <<".">>) = 0
        THEN [ok |-> TRUE,
              database_name |-> SubSeq(tail, 1, d - 1),
              table_name |-> SubSeq(tail, d + 1, Len(tail))]
        ELSE [ok |-> FALSE]

\* table_name.rsplit("__", 1): a split at the last occurrence
SplitName_Last(table_name) ==
    LET i == RFind(table_name, S_uu)
    IN  [base_name |-> SubSeq(table_name, 1, i - 1),
         rest |-> SubSeq(table_name, i + 2, Len(table_name))]

\* line 56: table_name.split("__", 1), for a table_name that contains "__"
SplitName(table_name) ==
    LET i == Find(table_name, S_uu)
    IN  [base_name |-> SubSeq(table_name, 1, i - 1),
         rest |-> SubSeq(table_name, i + 2, Len(table_name))]

\* line 42: not deploy_env or deploy_env == "prod"
NoRewriteLabel(label) == label = NoLabel \/ label = <<>> \/ label = S_prod

\* _apply_env_to_model_id(unique_id, deploy_env)
ApplyEnvToModelId(unique_id, label) ==
    IF NoRewriteLabel(label) THEN unique_id
    ELSE LET match == ModelMatch(unique_id)
         IN  IF ~match.ok THEN unique_id
             ELSE LET env_suffix == <<"_">> \o label \o S_dbt
                  IN  IF label = S_prod THEN unique_id
                      ELSE IF Find(match.table_name, S_uu) = 0 THEN unique_id
                      ELSE LET parts == SplitName(match.table_name)
                           IN  S_model_dot \o match.database_name \o <<".">>
                                   \o parts.base_name \o env_suffix
                                   \o S_uu \o parts.rest

\* a call _apply_env_to_model_id(env_id, env_label)
InitEnv ==
    /\ unique_ids = <<>>
    /\ deploy_env = None
    /\ workflow_name = None
    /\ bucket = {}
    /\ FlowIdle
    /\ MainIdle
    /\ env_pc = "call"
    /\ env_id \in EnvIds
    /\ env_label \in EnvLabels
    /\ env_out = <<>>
    /\ YamlIdle
    /\ FnIdle

\* lines 41-57: the call returns
ApplyEnv ==
    /\ env_pc = "call"
    /\ env_out' = ApplyEnvToModelId(env_id, env_label)
    /\ env_pc' = "done"
    /\ UNCHANGED <<env_id, env_label>>
    /\ UNCHANGED <<flowVars, yamlVars, fnVars, mainVars>>

NextEnv == ApplyEnv

SpecEnv == InitEnv /\ [][NextEnv]_vars

(***************************************************************************)
(* Properties of _apply_env_to_model_id                                    *)
(***************************************************************************)
NoDotIn(s, from, to) == \A m \in from..to : s[m] # "."

\* id is model.<namespace>.<name> with dot-free non-empty namespace and name,
\* its second dot at position d, and the first "__" of <name> at position u
QualifiesAt(id, d, u) ==
    LET p == Len(S_model_dot)
    IN  /\ Len(id) > p
        /\ SubSeq(id, 1, p) = S_model_dot
        /\ d \in (p + 2)..Len(id)
        /\ u \in (d + 1)..(Len(id) - 1)
        /\ id[d] = "."
        /\ NoDotIn(id, p + 1, d - 1)
        /\ NoDotIn(id, d + 1, Len(id))
        /\ id[u] = "_" /\ id[u + 1] = "_"
        /\ \A v \in (d + 1)..(u - 1) : ~(id[v] = "_" /\ id[v + 1] = "_")

Qualifies(id) == \E d, u \in 1..Len(id) : QualifiesAt(id, d, u)

RewritingLabel(label) == label # NoLabel /\ label # <<>> /\ label # S_prod

\* C6: for a label that is non-empty and not "prod" and an identifier
\* model.<namespace>.<base>__<rest>, split at the first "__" of the name, the
\* result is model.<namespace>.<base>_<label>_dbt__<rest>.
EnvRewriteQualifying ==
    (env_pc = "done" /\ RewritingLabel(env_label)) =>
        \A d, u \in 1..Len(env_id) :
            QualifiesAt(env_id, d, u) =>
                env_out = SubSeq(env_id, 1, u - 1) \o <<"_">> \o env_label
                            \o S_dbt \o SubSeq(env_id, u, Len(env_id))

\* C6 witness: ("model.db.base__rest", "dev") gives "model.db.base_dev_dbt__rest"
EnvRewriteWitness ==
    /\ env_pc = "done"
    /\ env_id = S_example_id
    /\ env_label = S_dev
    /\ env_out = <<"m", "o", "d", "e", "l", ".", "d", "b", ".", "b", "a", "s", "e", "_", "d", "e", "v", "_", "d", "b", "t", "_", "_", "r", "e", "s", "t">>

\* C7: the identifier is returned unchanged when the label is absent, empty
\* or "prod", and for every label when the identifier is not
\* model.<namespace>.<name> with a dot-free name that contains "__".
EnvRewriteUnchanged ==
    env_pc = "done" =>
        /\ ~RewritingLabel(env_label) => env_out = env_id
        /\ ~Qualifies(env_id) => env_out = env_id

\* C7 witness: model.a.a.__ has three segments after model. and stays as it
\* is under the label dev
EnvUnchangedWitness ==
    /\ env_pc = "done"
    /\ env_label = S_dev
    /\ env_id = <<"m", "o", "d", "e", "l", ".", "a", ".", "a", ".", "_", "_">>
    /\ env_out = env_id

(***************************************************************************)
(* _normalize_unique_id and the line patterns of _parse_unique_ids_yaml    *)
(***************************************************************************)
WsChars == {" ", "\t"}

IsWs(c) == c \in WsChars

\* [A-Za-z0-9_]
IsWordChar(c) ==
    LET o == Ord(c)
    IN  \/ o \in 48..57
        \/ o \in 65..90
        \/ o \in 97..122
        \/ o = 95

\* len(s) - len(s.lstrip()): the number of leading whitespace characters
Lead(s) ==
    CHOOSE n \in 0..Len(s) :
        /\ \A i \in 1..n : IsWs(s[i])
        /\ n = Len(s) \/ ~IsWs(s[n + 1])

\* the number of trailing whitespace characters
Trail(s) ==
    CHOOSE n \in 0..Len(s) :
        /\ \A i \in (Len(s) - n + 1)..Len(s) : IsWs(s[i])
        /\ n = Len(s) \/ ~IsWs(s[Len(s) - n])

LStrip(s) == SubSeq(s, Lead(s) + 1, Len(s))
RStrip(s) == SubSeq(s, 1, Len(s) - Trail(s))
Strip(s) == RStrip(LStrip(s))

\* (a variant that removes one trailing comma at most)
RStripCommas_One(s) ==
    IF s # <<>> /\ s[Len(s)] = "," THEN SubSeq(s, 1, Len(s) - 1) ELSE s

\* s.rstrip(","): every trailing comma is removed
RECURSIVE RStripCommas(_)
RStripCommas(s) ==
    IF s # <<>> /\ s[Len(s)] = "," THEN RStripCommas(SubSeq(s, 1, Len(s) - 1))
    ELSE s

\* _normalize_unique_id(value)
NormalizeUniqueId(value) ==
    LET v == RStripCommas(Strip(value))
    IN  IF \/ (StartsWith(v, <<"\"">>) /\ EndsWith(v, <<"\"">>))
           \/ (StartsWith(v, <<"'">>) /\ EndsWith(v, <<"'">>))
        THEN Strip(SubSeq(v, 2, Len(v) - 1))
        ELSE v

S_dags == <<"d", "a", "g", "s">>
S_name_colon == <<"n", "a", "m", "e", ":">>
S_models == <<"m", "o", "d", "e", "l", "s">>

\* line 77: re.match(r"^(\s*)dags\s*:\s*$", line); indent is len(group(1))
DagsMatch(line) ==
    LET n == Lead(line)
        r1 == SubSeq(line, n + 1, Len(line))
        r2 == LStrip(SubSeq(r1, Len(S_dags) + 1, Len(r1)))
    IN  IF /\ StartsWith(r1, S_dags)
           /\ r2 # <<>>
           /\ Head(r2) = ":"
           /\ LStrip(Tail(r2)) = <<>>
        THEN [ok |-> TRUE, indent |-> n]
        ELSE [ok |-> FALSE]

\* line 83: re.match(r"^(\s*)-\s*name:\s*(.+)$", line); indent is
\* len(group(1)), name is group(2): what follows the whitespace after name:,
\* or the last whitespace character when nothing else follows
NameMatch(line) ==
    LET n == Lead(line)
        r1 == SubSeq(line, n + 1, Len(line))
        r2 == IF r1 = <<>> THEN <<>> ELSE LStrip(Tail(r1))
        r3 == SubSeq(r2, Len(S_name_colon) + 1, Len(r2))
    IN  IF /\ r1 # <<>>
           /\ Head(r1) = "-"
           /\ StartsWith(r2, S_name_colon)
           /\ r3 # <<>>
        THEN [ok |-> TRUE, indent |-> n,
              name |-> IF LStrip(r3) # <<>> THEN LStrip(r3)
                       ELSE <<r3[Len(r3)]>>]
        ELSE [ok |-> FALSE]

\* line 102: re.search(r"\bmodels\s*:", line)
ModelsSearch(line) ==
    \E i \in 1..(Len(line) - Len(S_models) + 1) :
        /\ SubSeq(line, i, i + Len(S_models) - 1) = S_models
        /\ i = 1 \/ ~IsWordChar(line[i - 1])
        /\ LET r == LStrip(SubSeq(line, i + Len(S_models), Len(line)))
           IN  r # <<>> /\ Head(r) = ":"

\* line 109: re.search(r"\S", line)
HasNonWs(line) == \E i \in 1..Len(line) : ~IsWs(line[i])

\* lines 69-74: re.findall(r"\"([^\"]+)\"|'([^']+)'", line), from position i
RECURSIVE ExtractFrom(_, _)
ExtractFrom(line, i) ==
    IF i > Len(line) THEN <<>>
    ELSE IF line[i] \in {"\"", "'"}
    THEN LET closes == {j \in (i + 1)..Len(line) : line[j] = line[i]}
         IN  IF closes = {} THEN ExtractFrom(line, i + 1)
             ELSE LET j == CHOOSE c \in closes : \A d \in closes : c <= d
                  IN  IF j = i + 1 THEN ExtractFrom(line, i + 1)
                      ELSE <<SubSeq(line, i + 1, j - 1)>>
                               \o ExtractFrom(line, j + 1)
    ELSE ExtractFrom(line, i + 1)

\* _extract_quoted(line)
ExtractQuoted(line) == ExtractFrom(line, 1)

(***************************************************************************)
(* The documents: lines of the dialect the upstream generator writes       *)
(***************************************************************************)
L_dags == "dags:"
L_datasets == "datasets:"
L_name_d1_top == "- name: d1"
L_name_d1 == "  - name: \"d1\""
L_name_d2 == "  - name: d2"
L_models_inline == "    models: \"x\""
L_models_block == "    models:"
L_item == "      - \"y\""
L_owner == "    owner: \"z\""
L_blank == ""

\* the characters of each line
Text ==
    (L_dags :> <<"d", "a", "g", "s", ":">>) @@
    (L_datasets :> <<"d", "a", "t", "a", "s", "e", "t", "s", ":">>) @@
    (L_name_d1_top :> <<"-", " ", "n", "a", "m", "e", ":", " ", "d", "1">>) @@
    (L_name_d1 :> <<" ", " ", "-", " ", "n", "a", "m", "e", ":", " ", "\"", "d", "1", "\"">>) @@
    (L_name_d2 :> <<" ", " ", "-", " ", "n", "a", "m", "e", ":", " ", "d", "2">>) @@
    (L_models_inline :> <<" ", " ", " ", " ", "m", "o", "d", "e", "l", "s", ":", " ", "\"", "x", "\"">>) @@
    (L_models_block :> <<" ", " ", " ", " ", "m", "o", "d", "e", "l", "s", ":">>) @@
    (L_item :> <<" ", " ", " ", " ", " ", " ", "-", " ", "\"", "y", "\"">>) @@
    (L_owner :> <<" ", " ", " ", " ", "o", "w", "n", "e", "r", ":", " ", "\"", "z", "\"">>) @@
    (L_blank :> <<>>)

LineSet == DOMAIN Text

\* what the loop body computes from the text of a line: the matches of
\* lines 77, 83, 102 and 109, the indent of lines 103 and 108, and the
\* quoted substrings of lines 104 and 112
Scanned ==
    [l \in LineSet |->
        [dags |-> DagsMatch(Text[l]),
         name |-> NameMatch(Text[l]),
         models |-> ModelsSearch(Text[l]),
         lead |-> Lead(Text[l]),
         nonws |-> HasNonWs(Text[l]),
         quoted |-> ExtractQuoted(Text[l])]]

S_d1 == <<"d", "1">>
S_d2 == <<"d", "2">>

\* the values of DATASET_TARGET
Targets == {S_d1}

\* a call _parse_unique_ids_yaml(path, y_target); the lines of the file are
\* read one at a time
InitYaml ==
    /\ unique_ids = <<>>
    /\ deploy_env = None
    /\ workflow_name = None
    /\ bucket = {}
    /\ FlowIdle
    /\ MainIdle
    /\ EnvIdle
    /\ FnIdle
    /\ y_pc = "scan"
    /\ y_target \in Targets
    /\ y_read = <<>>
    /\ y_ids = <<>>
    /\ y_src = <<>>
    /\ y_opener = 0
    /\ in_target_block = FALSE
    /\ base_indent = NoIndent
    /\ models_indent = NoIndent
    /\ in_dags_section = FALSE
    /\ dags_indent = NoIndent

\* the number of lines of the content: of a document given to the scanner
\* alone, and of the document that a run of main reads
LinesBound == IF m_pc = "idle" THEN MaxLines ELSE MaxFileLines

\* the lines of the document that a run of main reads
FileLineSet == {L_dags, L_name_d1, L_models_block, L_item, L_owner}

\* the lines the content can hold
Readable == IF m_pc = "idle" THEN LineSet ELSE FileLineSet

\* line 76: the loop takes the next line of the content
ReadLine(line) ==
    /\ y_pc = "scan"
    /\ Len(y_read) < LinesBound
    /\ line \in Readable
    /\ y_read' = Append(y_read, line)
    /\ UNCHANGED y_target
    /\ UNCHANGED <<flowVars, envVars, fnVars, mainVars>>

\* unique_ids.extend(_extract_quoted(line)); y_src keeps, for every
\* identifier, the number of the line it was taken from
Extend(line) ==
    LET got == Scanned[line].quoted
    IN  /\ y_ids' = y_ids \o got
        /\ y_src' = y_src \o [k \in DOMAIN got |-> Len(y_read) + 1]

\* lines 77-81: a dags: header
ScanDags ==
    \E line \in LineSet :
        /\ ReadLine(line)
        /\ Scanned[line].dags.ok
        /\ in_dags_section' = TRUE
        /\ dags_indent' = Scanned[line].dags.indent
        /\ UNCHANGED <<y_pc, y_ids, y_src, y_opener, in_target_block,
                       base_indent, models_indent>>

\* lines 83-97: a - name: line
ScanName ==
    \E line \in LineSet :
        /\ ReadLine(line)
        /\ ~Scanned[line].dags.ok
        /\ Scanned[line].name.ok
        /\ LET indent == Scanned[line].name.indent
               raw_name == NormalizeUniqueId(Scanned[line].name.name)
               leaves == /\ in_dags_section
                         /\ dags_indent # NoIndent
                         /\ indent <= dags_indent
               in_dags1 == IF leaves THEN FALSE ELSE in_dags_section
               dags_indent1 == IF leaves THEN NoIndent ELSE dags_indent
           IN  /\ in_dags_section' = in_dags1
               /\ dags_indent' = dags_indent1
               /\ IF /\ in_target_block
                     /\ base_indent # NoIndent
                     /\ indent <= base_indent
                  THEN \* line 91: break
                       /\ y_pc' = "done"
                       /\ UNCHANGED <<y_opener, in_target_block, base_indent,
                                      models_indent>>
                  ELSE IF /\ in_dags1
                          /\ dags_indent1 # NoIndent
                          /\ indent <= dags_indent1
                  THEN \* line 93: continue
                       UNCHANGED <<y_pc, y_opener, in_target_block,
                                   base_indent, models_indent>>
                  ELSE /\ in_target_block' = (raw_name = y_target)
                       /\ base_indent' = indent
                       /\ models_indent' = NoIndent
                       /\ y_opener' = IF raw_name = y_target
                                      THEN Len(y_read) + 1 ELSE 0
                       /\ UNCHANGED y_pc
        /\ UNCHANGED <<y_ids, y_src>>

\* lines 99-100: any other line outside the target block
ScanOutside ==
    \E line \in LineSet :
        /\ ReadLine(line)
        /\ ~Scanned[line].dags.ok
        /\ ~Scanned[line].name.ok
        /\ ~in_target_block
        /\ UNCHANGED <<y_pc, y_ids, y_src, y_opener, in_target_block,
                       base_indent, models_indent, in_dags_section,
                       dags_indent>>

\* lines 102-105: a models: line in the target block
ScanModels ==
    \E line \in LineSet :
        /\ ReadLine(line)
        /\ ~Scanned[line].dags.ok
        /\ ~Scanned[line].name.ok
        /\ in_target_block
        /\ Scanned[line].models
        /\ models_indent' = Scanned[line].lead
        /\ Extend(line)
        /\ UNCHANGED <<y_pc, y_opener, in_target_block, base_indent,
                       in_dags_section, dags_indent>>

\* lines 107-111: a line that closes the models block
ScanModelsClose ==
    \E line \in LineSet :
        /\ ReadLine(line)
        /\ ~Scanned[line].dags.ok
        /\ ~Scanned[line].name.ok
        /\ in_target_block
        /\ ~Scanned[line].models
        /\ models_indent # NoIndent
        /\ Scanned[line].lead <= models_indent
        /\ Scanned[line].nonws
        /\ models_indent' = NoIndent
        /\ UNCHANGED <<y_pc, y_ids, y_src, y_opener, in_target_block,
                       base_indent, in_dags_section, dags_indent>>

\* lines 107-112: a line of the models block
ScanModelsItem ==
    \E line \in LineSet :
        /\ ReadLine(line)
        /\ ~Scanned[line].dags.ok
        /\ ~Scanned[line].name.ok
        /\ in_target_block
        /\ ~Scanned[line].models
        /\ models_indent # NoIndent
        /\ ~(Scanned[line].lead <= models_indent /\ Scanned[line].nonws)
        /\ Extend(line)
        /\ UNCHANGED <<y_pc, y_opener, in_target_block, base_indent,
                       models_indent, in_dags_section, dags_indent>>

\* line 107: a line of the target block outside any models block
ScanOther ==
    \E line \in LineSet :
        /\ ReadLine(line)
        /\ ~Scanned[line].dags.ok
        /\ ~Scanned[line].name.ok
        /\ in_target_block
        /\ ~Scanned[line].models
        /\ models_indent = NoIndent
        /\ UNCHANGED <<y_pc, y_ids, y_src, y_opener, in_target_block,
                       base_indent, models_indent, in_dags_section,
                       dags_indent>>

\* lines 76 and 114: the content has no further line, the list is returned
EndOfContent ==
    /\ y_pc = "scan"
    /\ y_pc' = "done"
    /\ UNCHANGED <<y_target, y_read, y_ids, y_src, y_opener, in_target_block,
                   base_indent, models_indent, in_dags_section, dags_indent>>
    /\ UNCHANGED <<flowVars, envVars, fnVars, mainVars>>

NextYaml ==
    \/ ScanDags
    \/ ScanName
    \/ ScanOutside
    \/ ScanModels
    \/ ScanModelsClose
    \/ ScanModelsItem
    \/ ScanOther
    \/ EndOfContent

SpecYaml == InitYaml /\ [][NextYaml]_vars

(***************************************************************************)
(* Properties of _parse_unique_ids_yaml                                    *)
(***************************************************************************)
LineText(i) == Text[y_read[i]]
IndentOf(i) == Lead(LineText(i))
IsBlank(i) == ~HasNonWs(LineText(i))

\* line k lies inside a dags: region: after a dags: header, every line from
\* the header to k being more indented than the header (or blank)
InDagsRegion(k) ==
    \E h \in 1..(k - 1) :
        /\ DagsMatch(LineText(h)).ok
        /\ \A m \in (h + 1)..k : IsBlank(m) \/ IndentOf(m) > IndentOf(h)

\* line k lies in the body of a - name: block whose normalized name is the
\* target: after the name line, every line up to k being more indented than
\* the name line (or blank)
InTargetBody(k) ==
    \E n \in 1..(k - 1) :
        /\ NameMatch(LineText(n)).ok
        /\ NormalizeUniqueId(NameMatch(LineText(n)).name) = y_target
        /\ \A m \in (n + 1)..k : IsBlank(m) \/ IndentOf(m) > IndentOf(n)

\* C4: the dags region takes precedence over name matching: a - name: line
\* inside a dags: region never opens the target block, even when its
\* normalized name equals the target.
DagsRegionNeverOpensTarget ==
    (in_target_block /\ y_opener > 0) => ~InDagsRegion(y_opener)

\* C5: every identifier of the result comes from a line in the body of a
\* - name: block whose normalized name equals the target; a line after the
\* block was terminated by a line at indentation <= the block's contributes
\* nothing.
IdsOnlyFromTargetBody ==
    \A k \in DOMAIN y_src : InTargetBody(y_src[k])

(***************************************************************************)
(* Further properties of assert_success and _download_run_results_from_s3  *)
(***************************************************************************)
\* document k is the last of the returned documents whose Status Index
\* holds identifier u
LastDocWith(u, k) ==
    /\ k \in DOMAIN run_results
    /\ DocHasId(run_results[k], u)
    /\ \A j \in DOMAIN run_results : j > k => ~DocHasId(run_results[j], u)

\* C11: assert_success returns normally only when every requested
\* identifier has a final status of "success": the last document, in list
\* order, that holds the identifier gives it status "success".
ReturnsOnlyOnFinalSuccess ==
    pc = "returned" =>
        \A u \in Range(unique_ids) :
            \E k \in DOMAIN run_results :
                /\ LastDocWith(u, k)
                /\ DocGives(run_results[k], u, "success")

(***************************************************************************)
(* Further properties of _parse_unique_ids_yaml                            *)
(***************************************************************************)
IsDagsLine(i) == Scanned[y_read[i]].dags.ok
IsNameLine(i) == ~IsDagsLine(i) /\ Scanned[y_read[i]].name.ok
LeadOf(i) == Scanned[y_read[i]].lead
QuotedOf(i) == Scanned[y_read[i]].quoted

\* line i is a - name: line whose normalized name is the target
IsTargetName(i) ==
    /\ IsNameLine(i)
    /\ NormalizeUniqueId(Scanned[y_read[i]].name.name) = y_target

\* line i holds a models property
IsModelsLine(i) ==
    ~IsDagsLine(i) /\ ~IsNameLine(i) /\ Scanned[y_read[i]].models

\* a models: line with no inline value: nothing follows the colon
NoInlineValue(i) ==
    LET t == RStrip(LineText(i))
    IN  t # <<>> /\ t[Len(t)] = ":"

\* line k is in the body of the block that the name line n opens: the lines
\* after n up to k are more indented than n (or blank) and none of them
\* opens a block of its own
InBodyOf(n, k) ==
    /\ n < k
    /\ \A m \in (n + 1)..k :
         /\ IsBlank(m) \/ LeadOf(m) > LeadOf(n)
         /\ ~IsNameLine(m)

\* line j closes the models block of the models: line m: it has
\* non-whitespace content and is indented no more than m
ClosesModels(m, j) == Scanned[y_read[j]].nonws /\ LeadOf(j) <= LeadOf(m)

\* line k is a line of the models block of the models: line m: m has no
\* inline value and no line after m up to k closes the block
InModelsBlock(m, k) ==
    /\ m < k
    /\ IsModelsLine(m)
    /\ NoInlineValue(m)
    /\ \A j \in (m + 1)..k : ~ClosesModels(m, j)

\* the identifiers the result took from line k, in the order of the result
ContributedBy(k) ==
    LET at == SelectSeq([j \in DOMAIN y_src |-> j], LAMBDA j : y_src[j] = k)
    IN  [j \in DOMAIN at |-> y_ids[at[j]]]

\* the result lists the identifiers in the order of their lines
InDocumentOrder ==
    \A i, j \in DOMAIN y_src : i < j => y_src[i] <= y_src[j]

\* the scanner is inside the block that the name line n opened
ScannerOpened(n) == in_target_block /\ y_opener = n

\* n is the first - name: line of the document whose normalized name
\* equals the target and that is not inside a dags region
FirstTargetBlock(n) ==
    /\ IsTargetName(n)
    /\ ~InDagsRegion(n)
    /\ \A e \in 1..(n - 1) : ~(IsTargetName(e) /\ ~InDagsRegion(e))

\* C12: completeness of the extraction, for the first block of the document
\* whose normalized name equals the target and that is not inside a dags
\* region: the scanner enters the block that its - name: line opens, and
\* every quoted substring of every models property in the body of the block
\* (the models: line itself, or a line of its models block) is in the
\* result, in document order.
TargetBlockComplete ==
    /\ InDocumentOrder
    /\ \A n \in DOMAIN y_read :
         FirstTargetBlock(n) =>
            /\ n = Len(y_read) => ScannerOpened(n)
            /\ \A k \in DOMAIN y_read :
                 (/\ InBodyOf(n, k)
                  /\ \/ IsModelsLine(k)
                     \/ \E m \in (n + 1)..(k - 1) : InModelsBlock(m, k))
                    => ContributedBy(k) = QuotedOf(k)

\* lines j of the models block that the models: line m heads, up to its
\* closing line: c is the first line after m that closes the block
FirstClose(m, c) ==
    /\ m < c
    /\ ClosesModels(m, c)
    /\ \A j \in (m + 1)..(c - 1) : ~ClosesModels(m, j)

\* m is a models: line with no inline value that the scanner read inside the
\* target block
HeadsModelsBlock(m) ==
    /\ m \in DOMAIN y_read
    /\ IsModelsLine(m)
    /\ NoInlineValue(m)
    /\ \E n \in 1..(m - 1) :
         /\ IsTargetName(n)
         /\ \A j \in (n + 1)..m : ~IsNameLine(j)

\* C13: closing of a models block. Inside the target block, after a models:
\* line with no inline value, every following line contributes the quoted
\* substrings it holds until the first line with non-whitespace content and
\* indentation <= that of the models: line; blank lines do not close the
\* block; the closing line contributes nothing, and after it no line
\* contributes until another models: line is seen (a closing line that is
\* itself a models: line starts the next models property).
ModelsBlockCloses ==
    \A m \in DOMAIN y_read :
        HeadsModelsBlock(m) =>
            \A k \in (m + 1)..Len(y_read) :
                /\ InModelsBlock(m, k) => ContributedBy(k) = QuotedOf(k)
                /\ (\E c \in (m + 1)..k :
                        /\ FirstClose(m, c)
                        /\ \A j \in c..k : ~Scanned[y_read[j]].models)
                      => ContributedBy(k) = <<>>

(***************************************************************************)
(* One bucket for several environments and workflows                       *)
(***************************************************************************)
\* the key of the object called name under the target prefix of env and
\* workflow
KeyOf(env, workflow, name) == TargetPrefix(env, workflow) \o name

\* the keys of a bucket that several environments and workflows share
SharedKeyUniverse ==
    {ShardKey(2),
     KeyOf("dev", "wf", S_run_results_json),
     ManifestKey,
     KeyOf("prod", "wf", S_run_results_ \o Dec(1) \o S_dot_json),
     KeyOf("dev", "wf_b", S_run_results_ \o Dec(1) \o S_dot_json)}

\* a call assert_success(unique_ids, deploy_env, workflow_name) on a bucket
\* that several environments and workflows share
InitList ==
    /\ unique_ids \in {<<>>, <<"model.foo">>}
    /\ deploy_env \in {"dev", "prod"}
    /\ workflow_name \in {"wf", "wf_b"}
    /\ bucket \in SUBSET SharedKeyUniverse
    /\ FlowIdle
    /\ MainIdle
    /\ EnvIdle
    /\ YamlIdle
    /\ FnIdle

SpecList == InitList /\ [][Next]_vars

\* k is prefix, then run_results_, then one or more digits, then .json
IsShardUnder(prefix, k) ==
    LET head == prefix \o S_run_results_
    IN  /\ StartsWith(k, head)
        /\ EndsWith(k, S_dot_json)
        /\ Len(k) > Len(head) + Len(S_dot_json)
        /\ \A i \in (Len(head) + 1)..(Len(k) - Len(S_dot_json)) : IsDigit(k[i])

\* the keys of the bucket that the call is to fetch: a shard
\* run_results_<digits>.json or run_results.json, under the target prefix of
\* the call
Wanted ==
    LET prefix == TargetPrefix(deploy_env, workflow_name)
    IN  {k \in bucket : IsShardUnder(prefix, k) \/ k = prefix \o S_run_results_json}

\* C14: artifact selection. Every listing is of the prefix
\* <env>/run_artefacts/<workflow>/latest/target/ ; only shards
\* run_results_<digits>.json and run_results.json under that prefix are
\* downloaded; when the list of documents is returned it holds exactly one
\* document for each of these keys, and none for any other key of the
\* prefix or for a key of another environment or workflow.
ArtifactSelection ==
    /\ \A i \in DOMAIN ops :
         ops[i].op = "list" =>
            ops[i].prefix = TargetPrefix(deploy_env, workflow_name)
    /\ Range(DownloadedKeys) \subseteq Wanted
    /\ FoldStarted =>
         /\ Range(DownloadedKeys) = Wanted
         /\ Len(DownloadedKeys) = Cardinality(Wanted)
         /\ Len(run_results) = Cardinality(Wanted)

\* C14 witness: the bucket holds every key of the universe; the call for
\* dev and wf returned the two documents of its own prefix
ArtifactSelectionWitness ==
    /\ pc = "returned"
    /\ deploy_env = "dev"
    /\ workflow_name = "wf"
    /\ bucket = SharedKeyUniverse
    /\ Len(run_results) = 2
    /\ Range(DownloadedKeys)
          = {ShardKey(2), KeyOf("dev", "wf", S_run_results_json)}

(***************************************************************************)
(* Failures of the download                                                *)
(***************************************************************************)
DownloadErrors == {"ClientError", "JSONDecodeError"}

\* the downloads that failed, as positions in ops
FailedOps == {i \in DOMAIN ops : ops[i].op = "download" /\ ops[i].outcome # "ok"}

NoDuplicate(s) == \A i, j \in DOMAIN s : i # j => s[i] # s[j]

\* C15: errors propagate and nothing is retried. When the download or the
\* parse of a selected artifact fails, the call ends with that error: the
\* failed operation is the last one on the repository, no list of documents
\* reaches the fold, and neither the confirmation nor a validation error is
\* produced, whatever the documents downloaded before. In every call each
\* selected key is downloaded at most once.
ErrorsPropagate ==
    /\ [](/\ NoDuplicate(DownloadedKeys)
          /\ \A i \in FailedOps :
                /\ i = Len(ops)
                /\ pc = ops[i].outcome
                /\ folded = 0
                /\ last_status = EmptyDict
                /\ \A u \in DOMAIN success_map : ~success_map[u]
                /\ missing = <<>> /\ failed = <<>>
                /\ message = None
          /\ pc \in DownloadErrors => FailedOps # {})
    /\ [][(pc \in DownloadErrors) => (ops' = ops /\ pc' = pc)]_vars

\* C15 witness: the second artifact does not parse after the first one gave
\* the requested identifier status "success"
ErrorsPropagateWitness ==
    /\ pc = "JSONDecodeError"
    /\ Len(unique_ids) = 1
    /\ Len(sorted_keys) = 2
    /\ Len(run_results) = 1
    /\ DocGives(run_results[1], unique_ids[1], "success")

(***************************************************************************)
(* The text of the validation error                                        *)
(***************************************************************************)
\* the status that the latest document holding u gives to u
FinalStatus(u) ==
    CHOOSE s \in Statuses :
        \E k \in DOMAIN run_results :
            LastDocWith(u, k) /\ DocGives(run_results[k], u, s)

\* the requested identifiers no document holds, in requested order
MissingIds == SelectSeq(unique_ids, LAMBDA u : ~FoundWithin(u, Len(run_results)))

\* the requested identifiers that a document holds and none gives status
\* "success", in requested order
FailedIds ==
    SelectSeq(unique_ids,
              LAMBDA u : /\ FoundWithin(u, Len(run_results))
                         /\ ~SuccessWithin(u, Len(run_results)))

\* id=status of the failed identifiers from position i on, separated by ", "
RECURSIVE FailedText(_)
FailedText(i) ==
    IF i > Len(FailedIds) THEN ""
    ELSE (IF i > 1 THEN ", " ELSE "")
            \o FailedIds[i] \o "=" \o FinalStatus(FailedIds[i])
            \o FailedText(i + 1)

RECURSIVE MissingText(_)
MissingText(i) ==
    IF i > Len(MissingIds) THEN ""
    ELSE (IF i > 1 THEN ", " ELSE "") \o MissingIds[i] \o MissingText(i + 1)

\* C16: the text of the validation error. The missing identifiers come
\* first, by id, the failed identifiers second, each with its final
\* last-seen status (its status in the latest document, in list order, that
\* holds it); the two parts are joined with "; ", a part whose list is empty
\* is left out, and the identifiers stand in requested order.
ValidationErrorText ==
    pc = "RuntimeError" =>
        LET missingPart == "Missing unique_id(s): " \o MissingText(1)
            failedPart == "Non-success status(es): " \o FailedText(1)
        IN  /\ MissingIds # <<>> \/ FailedIds # <<>>
            /\ (MissingIds # <<>> /\ FailedIds # <<>>)
                    => message = missingPart \o "; " \o failedPart
            /\ (MissingIds # <<>> /\ FailedIds = <<>>) => message = missingPart
            /\ (MissingIds = <<>> /\ FailedIds # <<>>) => message = failedPart

\* C16 witness: requested [model.foo, model.bar]; model.foo is missing and
\* model.bar went from "Success" to "error"
ValidationErrorWitness ==
    /\ pc = "RuntimeError"
    /\ unique_ids = <<"model.foo", "model.bar">>
    /\ Len(run_results) = 2
    /\ DocGives(run_results[1], "model.bar", "Success")
    /\ DocGives(run_results[2], "model.bar", "error")
    /\ message
         = "Missing unique_id(s): model.foo; Non-success status(es): model.bar=error"

(***************************************************************************)
(* The order of the returned documents and their timestamps                *)
(***************************************************************************)
\* the completed_at values of the timing entries of the records of doc
CompletedAts(doc) ==
    UNION {{r.timing[i].completed_at : i \in DOMAIN r.timing} :
              r \in {x \in Range(ResultsOf(doc)) : "timing" \in DOMAIN x}}

\* the latest completed_at of a document that has a timing entry
LatestCompletedAt(doc) ==
    CHOOSE t \in CompletedAts(doc) : \A o \in CompletedAts(doc) : o <= t

\* C20: the documents are returned sorted by timestamp: of two returned
\* documents that carry timing entries, the one with the earlier latest
\* completed_at comes first, whatever the names of their keys.
ReturnedByTimestamp ==
    FoldStarted =>
        \A a, b \in DOMAIN run_results :
            (/\ a < b
             /\ CompletedAts(run_results[a]) # {}
             /\ CompletedAts(run_results[b]) # {})
                => LatestCompletedAt(run_results[a])
                      <= LatestCompletedAt(run_results[b])

(***************************************************************************)
(* Calls of _normalize_unique_id                                           *)
(***************************************************************************)
\* the characters of a raw value: whitespace, the comma, both quote
\* characters and a letter
NormAlphabet == {" ", ",", "\"", "'", "a"}

\* a call _normalize_unique_id(fn_arg)
InitNorm ==
    /\ unique_ids = <<>>
    /\ deploy_env = None
    /\ workflow_name = None
    /\ bucket = {}
    /\ FlowIdle
    /\ MainIdle
    /\ EnvIdle
    /\ YamlIdle
    /\ fn_pc = "call"
    /\ fn_name = "_normalize_unique_id"
    /\ fn_arg \in SeqsUpTo(NormAlphabet, MaxValue)
    /\ fn_ret = <<>>

\* lines 22-28: the call returns
Normalize ==
    /\ fn_pc = "call"
    /\ fn_name = "_normalize_unique_id"
    /\ fn_ret' = NormalizeUniqueId(fn_arg)
    /\ fn_pc' = "done"
    /\ UNCHANGED <<fn_name, fn_arg>>
    /\ UNCHANGED <<flowVars, envVars, yamlVars, mainVars>>

NextNorm == Normalize

SpecNorm == InitNorm /\ [][NextNorm]_vars

QuoteChars == {"\"", "'"}

\* t is s without its leading and trailing whitespace
IsTrimOf(s, t) ==
    \E i \in 1..(Len(s) + 1), j \in 0..Len(s) :
        /\ i <= j + 1
        /\ t = SubSeq(s, i, j)
        /\ \A k \in 1..(i - 1) : IsWs(s[k])
        /\ \A k \in (j + 1)..Len(s) : IsWs(s[k])
        /\ t = <<>> \/ (~IsWs(t[1]) /\ ~IsWs(t[Len(t)]))

\* v is t without the commas at its end
IsCommaCutOf(t, v) ==
    \E n \in 0..Len(t) :
        /\ v = SubSeq(t, 1, n)
        /\ \A k \in (n + 1)..Len(t) : t[k] = ","
        /\ v = <<>> \/ v[Len(v)] # ","

\* the first and the last character of v are the same quote character
InQuotes(v) == v # <<>> /\ v[1] = v[Len(v)] /\ v[1] \in QuoteChars

\* the pieces of s: its contiguous parts
Pieces(s) == {SubSeq(s, i, j) : i \in 1..(Len(s) + 1), j \in 0..Len(s)}

\* the normalization as stated: one trailing comma at most is dropped, and
\* what stands between the outer quotes is kept as it is
StatedNormalize(value) ==
    LET t == CHOOSE x \in Pieces(value) : IsTrimOf(value, x)
        c == IF t # <<>> /\ t[Len(t)] = "," THEN SubSeq(t, 1, Len(t) - 1) ELSE t
    IN  IF Len(c) >= 2 /\ InQuotes(c) THEN SubSeq(c, 2, Len(c) - 1) ELSE c

\* C17: identifier normalization as stated. The result is the value with
\* leading and trailing whitespace trimmed, then exactly one trailing comma
\* dropped, then exactly one outer pair of quotes stripped when the first
\* and the last character are the same quote character, everything between
\* them kept verbatim; whitespace-only input gives the empty string.
NormalizationAsStated ==
    fn_pc = "done" => fn_ret = StatedNormalize(fn_arg)

\* C17, amended: the result is the value with leading and trailing
\* whitespace trimmed, then every trailing comma dropped, then, when the
\* first and the last character are the same quote character (a lone quote
\* character included), these outer quotes removed and the remainder
\* trimmed of leading and trailing whitespace again; every other character
\* is kept; empty and whitespace-only input give the empty string.
NormalizationHolds ==
    fn_pc = "done" =>
        /\ \E t \in Pieces(fn_arg) :
             /\ IsTrimOf(fn_arg, t)
             /\ \E v \in Pieces(t) :
                  /\ IsCommaCutOf(t, v)
                  /\ IF InQuotes(v)
                     THEN IsTrimOf(SubSeq(v, 2, Len(v) - 1), fn_ret)
                     ELSE fn_ret = v
        /\ (\A k \in DOMAIN fn_arg : IsWs(fn_arg[k])) => fn_ret = <<>>

\* C17 witness: a letter followed by two commas
NormalizationWitness ==
    /\ fn_pc = "done"
    /\ fn_name = "_normalize_unique_id"
    /\ fn_arg = <<"a", ",", ",">>
    /\ fn_ret = <<"a">>

(***************************************************************************)
(* Calls of _parse_unique_ids                                              *)
(***************************************************************************)
\* the position of the first comma of s, 0 when s has none
FirstComma(s) ==
    IF \E i \in DOMAIN s : s[i] = ","
    THEN CHOOSE i \in DOMAIN s : s[i] = "," /\ \A j \in 1..(i - 1) : s[j] # ","
    ELSE 0

\* value.split(",")
RECURSIVE SplitComma(_)
SplitComma(s) ==
    LET i == FirstComma(s)
    IN  IF i = 0 THEN <<s>>
        ELSE <<SubSeq(s, 1, i - 1)>> \o SplitComma(SubSeq(s, i + 1, Len(s)))

\* (a variant that appends every item)
KeepItem_Always(item) == TRUE

\* line 36: if item
KeepItem(item) == item # <<>>

\* lines 34-37: the inner loop over the items of one value
ParseValue(value) ==
    LET items == SplitComma(value)
        normalized == [i \in DOMAIN items |-> NormalizeUniqueId(items[i])]
    IN  SelectSeq(normalized, KeepItem)

\* _parse_unique_ids(values)
RECURSIVE ParseUniqueIds(_)
ParseUniqueIds(values) ==
    IF values = <<>> THEN <<>>
    ELSE ParseValue(Head(values)) \o ParseUniqueIds(Tail(values))

\* the characters of a raw value of the command line
ParseAlphabet == {"a", ",", " "}

S_a_blank_b == <<"a", ",", " ", ",", "b">>
S_blank_comma_blank == <<" ", " ", ",", " ", " ">>
S_a_a == <<"a", ",", "a">>

\* the raw values: every short string of the alphabet, and three longer ones
ParseValues ==
    SeqsUpTo(ParseAlphabet, MaxArgLen)
        \cup {S_a_blank_b, S_blank_comma_blank, S_a_a}

\* a call _parse_unique_ids(fn_arg)
InitParse ==
    /\ unique_ids = <<>>
    /\ deploy_env = None
    /\ workflow_name = None
    /\ bucket = {}
    /\ FlowIdle
    /\ MainIdle
    /\ EnvIdle
    /\ YamlIdle
    /\ fn_pc = "call"
    /\ fn_name = "_parse_unique_ids"
    /\ fn_arg \in SeqsUpTo(ParseValues, MaxArgs)
    /\ fn_ret = <<>>

\* lines 31-38: the call returns
Parse ==
    /\ fn_pc = "call"
    /\ fn_name = "_parse_unique_ids"
    /\ fn_ret' = ParseUniqueIds(fn_arg)
    /\ fn_pc' = "done"
    /\ UNCHANGED <<fn_name, fn_arg>>
    /\ UNCHANGED <<flowVars, envVars, yamlVars, mainVars>>

NextParse == Parse

SpecParse == InitParse /\ [][NextParse]_vars

\* the tokens of the raw values: <<v, p>> is the item of value v that starts
\* at position p, at the start of the value or right after a comma
Tokens ==
    UNION {{<<v, p>> : p \in {1} \cup {c + 1 : c \in {i \in DOMAIN fn_arg[v] :
                                                    fn_arg[v][i] = ","}}} :
              v \in DOMAIN fn_arg}

\* the normalized text of a token: from its start to the next comma or to
\* the end of the value
TokenText(t) ==
    LET s == fn_arg[t[1]]
        later == {c \in DOMAIN s : c >= t[2] /\ s[c] = ","}
        end == IF later = {} THEN Len(s)
               ELSE (CHOOSE c \in later : \A o \in later : c <= o) - 1
    IN  NormalizeUniqueId(SubSeq(s, t[2], end))

\* the tokens whose normalized text is not empty
Kept == {t \in Tokens : TokenText(t) # <<>>}

\* token t is met before token u
MetBefore(t, u) == t[1] < u[1] \/ (t[1] = u[1] /\ t[2] < u[2])

\* C18: identifier list parsing. The result holds the normalized text of
\* every token that is not empty after normalization, once for each such
\* token (duplicates are kept), in the order in which the tokens are met;
\* it never holds an empty string.
ParsedInOrder ==
    fn_pc = "done" =>
        /\ Len(fn_ret) = Cardinality(Kept)
        /\ \A t \in Kept :
             fn_ret[Cardinality({u \in Kept : MetBefore(u, t)}) + 1] = TokenText(t)
        /\ \A k \in DOMAIN fn_ret : fn_ret[k] # <<>>

\* C18 witness: the one value "a, ,b" gives ["a", "b"], and a value with the
\* same token twice keeps both
ParsedWitness ==
    /\ fn_pc = "done"
    /\ fn_arg = <<S_a_blank_b, S_a_a>>
    /\ fn_ret = <<<<"a">>, <<"b">>, <<"a">>, <<"a">>>>

(***************************************************************************)
(* Calls of _index_statuses                                                *)
(***************************************************************************)
\* the documents given to _index_statuses
IndexDocs ==
    {[results |-> r] : r \in SeqsUpTo(RecordSet, MaxRecords)}
        \cup {[metadata |-> "m"]}

\* a call _index_statuses(fn_arg)
InitIndex ==
    /\ unique_ids = <<>>
    /\ deploy_env = None
    /\ workflow_name = None
    /\ bucket = {}
    /\ FlowIdle
    /\ MainIdle
    /\ EnvIdle
    /\ YamlIdle
    /\ fn_pc = "call"
    /\ fn_name = "_index_statuses"
    /\ fn_arg \in IndexDocs
    /\ fn_ret = EmptyDict

\* lines 158-165: the call returns
Index ==
    /\ fn_pc = "call"
    /\ fn_name = "_index_statuses"
    /\ fn_ret' = IndexStatuses(fn_arg)
    /\ fn_pc' = "done"
    /\ UNCHANGED <<fn_name, fn_arg>>
    /\ UNCHANGED <<flowVars, envVars, yamlVars, mainVars>>

NextIndex == Index

SpecIndex == InitIndex /\ [][NextIndex]_vars

\* C19: the Status Index of one document. Every identifier that a record
\* with both fields names has exactly one entry, the status of the last such
\* record; a record that lacks unique_id or status gives no entry; a
\* document whose results are empty or absent gives the empty index.
IndexIsLastOccurrence ==
    fn_pc = "done" =>
        /\ DOMAIN fn_ret = {u \in Ids : DocHasId(fn_arg, u)}
        /\ \A u \in DOMAIN fn_ret : DocGives(fn_arg, u, fn_ret[u])
        /\ ResultsOf(fn_arg) = <<>> => fn_ret = EmptyDict

\* C19 witness: model.foo is "error", then "success", then named by a record
\* without status: the index gives model.foo the status "success"
IndexWitness ==
    /\ fn_pc = "done"
    /\ fn_arg = [results |-> <<[unique_id |-> "model.foo", status |-> "error"],
                               [unique_id |-> "model.foo", status |-> "success"],
                               [unique_id |-> "model.foo"]>>]
    /\ fn_ret = ("model.foo" :> "success")

(***************************************************************************)
(* The empty result of _parse_unique_ids_yaml                              *)
(***************************************************************************)
\* no - name: line read so far has a normalized value equal to the target
NeverMatched == \A i \in DOMAIN y_read : ~IsTargetName(i)

\* no line in the body of a block named by the target holds a models
\* property
NoModelsEntries ==
    \A k \in DOMAIN y_read : InTargetBody(k) => ~IsModelsLine(k)

\* C21: no match is not an error. When no - name: line of the document has
\* a normalized value equal to the target, or the blocks named by the target
\* hold no models property in their bodies, the result is the empty list,
\* and the scan raises nothing: it only ever continues or returns.
NoMatchIsEmpty ==
    /\ y_pc \in {"scan", "done"}
    /\ NeverMatched => y_ids = <<>>
    /\ NoModelsEntries => y_ids = <<>>

(***************************************************************************)
(* The temporary directory of _download_run_results_from_s3                *)
(***************************************************************************)
\* the call is inside the with statement of line 148
InsideWith == pc = "download"

\* the step performs a download
DownloadStep ==
    /\ Len(ops') = Len(ops) + 1
    /\ ops'[Len(ops')].op = "download"

\* C22: local staging is a scoped resource. The temporary directory exists
\* exactly while the call is inside the with statement: it is there before
\* every download, it holds the files downloaded so far, and on every way
\* out of _download_run_results_from_s3 (return, failure of a download,
\* failure of the parse) it is gone with every file it held, so nothing is
\* staged once assert_success has ended.
ScopedStaging ==
    /\ [](/\ InsideWith => /\ tmp_dir = "present"
                           /\ staged = {PathName(k) : k \in Range(DownloadedKeys)}
          /\ ~InsideWith => /\ tmp_dir \in {None, "removed"}
                            /\ staged = {}
          /\ (ops # <<>> /\ ops[Len(ops)].op = "download" /\ ~InsideWith)
                => tmp_dir = "removed")
    /\ [][DownloadStep => tmp_dir = "present"]_vars

\* C22 witness: a first artifact was staged and parsed, the parse of the
\* second one failed, and the directory is gone
ScopedStagingWitness ==
    /\ pc = "JSONDecodeError"
    /\ Len(run_results) = 1
    /\ Len(DownloadedKeys) = 2
    /\ tmp_dir = "removed"
    /\ staged = {}

(***************************************************************************)
(* main, step by step (lines 220-305)                                      *)
(***************************************************************************)
S_model_foo == <<"m", "o", "d", "e", "l", ".", "f", "o", "o">>
S_two_ids ==
    <<"m", "o", "d", "e", "l", ".", "f", "o", "o", ",", " ",
      "m", "o", "d", "e", "l", ".", "d", "b", ".", "t", "_", "_", "x">>
S_comma == <<",">>

\* args.unique_ids: the raw values of --unique-id (none when it is absent)
CliArgs == {<<>>, <<S_model_foo>>, <<S_two_ids>>, <<S_comma>>}

\* args.unique_id_yaml
YamlArgs == {None, "dag.yaml"}

\* the environment of the process at the names main reads
Environs ==
    [DATASET_TARGET : {None, "", "d1"},
     DEPLOY_ENV : {None, "", "dev", "prod"},
     WORKFLOW_NAME : {None, "wf"}]

\* the buckets of a run of main
MainBuckets == {{ManifestKey}, {ShardKey(2), ShardKey(10)}}

\* the characters of a value of the environment
CharsOf(value) ==
    IF value = None THEN NoLabel
    ELSE IF value = "" THEN <<>>
    ELSE IF value = "d1" THEN S_d1
    ELSE Chars[value]

\* a str, as one string, from its characters
Str(chars) == Join(chars, "")

\* (a variant that looks at the option only, never at the default path)
YamlPath_OptionOnly(option, exists) == option

\* lines 265-267: yaml_path
YamlPath(option, exists) ==
    IF option = None /\ exists THEN "DEFAULT_UNIQUE_ID_YAML" ELSE option

\* (a variant that puts the new identifiers in front)
ExtendIds_Front(ids, more) == more \o ids

\* lines 264 and 275: unique_ids.extend(more)
ExtendIds(ids, more) == ids \o more

\* line 290: deploy_env and deploy_env != "prod"
Rewrites(env) == ~Falsy(env) /\ env # "prod"

\* line 291: the list comprehension over unique_ids
RewriteAll(ids, env) ==
    [i \in DOMAIN ids |-> ApplyEnvToModelId(ids[i], CharsOf(env))]

UnknownLevelText == "Unknown level"
DatasetTargetText == "DATASET_TARGET is required when using --unique-id-yaml."
NoUniqueIdText ==
    "At least one unique_id is required via --unique-id or --unique-id-yaml."

\* a run of main: the command line, the environment, the default path and
\* the bucket are given; assert_success has not been called
InitMain ==
    /\ m_pc = "start"
    /\ args_unique_ids \in CliArgs
    /\ args_unique_id_yaml \in YamlArgs
    /\ default_exists \in BOOLEAN
    /\ environ \in Environs
    /\ yaml_path = None
    /\ main_unique_ids = <<>>
    /\ unique_ids = <<>>
    /\ deploy_env = None
    /\ workflow_name = None
    /\ bucket \in MainBuckets
    /\ pc = "idle"
    /\ sorted_keys = <<>>
    /\ run_results = <<>>
    /\ ops = <<>>
    /\ folded = 0
    /\ success_map = EmptyDict
    /\ last_status = EmptyDict
    /\ missing = <<>>
    /\ failed = <<>>
    /\ message = None
    /\ tmp_dir = None
    /\ staged = {}
    /\ EnvIdle
    /\ YamlIdle
    /\ FnIdle

\* lines 222-264: logging and the command line. basicConfig and setLevel
\* raise ValueError for a level name they do not know, parse_args leaves
\* with SystemExit for a command line it rejects; else the raw values of
\* --unique-id are parsed
ParseArgs ==
    /\ m_pc = "start"
    /\ \/ /\ m_pc' = "ValueError"
          /\ message' = UnknownLevelText
          /\ UNCHANGED main_unique_ids
       \/ /\ m_pc' = "SystemExit"
          /\ UNCHANGED <<message, main_unique_ids>>
       \/ /\ m_pc' = "yaml_path"
          /\ main_unique_ids' =
                IF args_unique_ids # <<>>
                THEN ExtendIds(<<>>, ParseUniqueIds(args_unique_ids))
                ELSE <<>>
          /\ UNCHANGED message
    /\ UNCHANGED <<args_unique_ids, args_unique_id_yaml, default_exists,
                   environ, yaml_path>>
    /\ UNCHANGED <<unique_ids, deploy_env, workflow_name, bucket, pc,
                   sorted_keys, run_results, ops, folded, success_map,
                   last_status, missing, failed, tmp_dir, staged>>
    /\ UNCHANGED <<envVars, yamlVars, fnVars>>

\* lines 265-275: the path of the document, DATASET_TARGET, and the call of
\* _parse_unique_ids_yaml
OpenYaml ==
    /\ m_pc = "yaml_path"
    /\ yaml_path' = YamlPath(args_unique_id_yaml, default_exists)
    /\ IF yaml_path' # None
       THEN IF Falsy(environ.DATASET_TARGET)
            THEN /\ m_pc' = "ValueError"
                 /\ message' = DatasetTargetText
                 /\ UNCHANGED <<y_pc, y_target>>
            ELSE /\ m_pc' = "yaml"
                 /\ y_pc' = "scan"
                 /\ y_target' = CharsOf(environ.DATASET_TARGET)
                 /\ UNCHANGED message
       ELSE /\ m_pc' = "resolved"
            /\ UNCHANGED <<message, y_pc, y_target>>
    /\ UNCHANGED <<y_read, y_ids, y_src, y_opener, in_target_block,
                   base_indent, models_indent, in_dags_section, dags_indent>>
    /\ UNCHANGED <<args_unique_ids, args_unique_id_yaml, default_exists,
                   environ, main_unique_ids>>
    /\ UNCHANGED <<unique_ids, deploy_env, workflow_name, bucket, pc,
                   sorted_keys, run_results, ops, folded, success_map,
                   last_status, missing, failed, tmp_dir, staged>>
    /\ UNCHANGED <<envVars, fnVars>>

\* line 275: _parse_unique_ids_yaml returns and its result extends the list;
\* the variables of the scan end with the call
YamlReturn ==
    /\ m_pc = "yaml"
    /\ y_pc = "done"
    /\ main_unique_ids' = ExtendIds(main_unique_ids, y_ids)
    /\ m_pc' = "resolved"
    /\ y_pc' = "returned"
    /\ y_read' = <<>>
    /\ y_src' = <<>>
    /\ y_opener' = 0
    /\ in_target_block' = FALSE
    /\ base_indent' = NoIndent
    /\ models_indent' = NoIndent
    /\ in_dags_section' = FALSE
    /\ dags_indent' = NoIndent
    /\ UNCHANGED <<y_target, y_ids>>
    /\ UNCHANGED <<args_unique_ids, args_unique_id_yaml, default_exists,
                   environ, yaml_path>>
    /\ UNCHANGED <<flowVars, envVars, fnVars>>

\* lines 276-280: at least one identifier is required
CheckResolved ==
    /\ m_pc = "resolved"
    /\ IF main_unique_ids = <<>>
       THEN m_pc' = "ValueError" /\ message' = NoUniqueIdText
       ELSE m_pc' = "rewrite" /\ UNCHANGED message
    /\ UNCHANGED <<args_unique_ids, args_unique_id_yaml, default_exists,
                   environ, yaml_path, main_unique_ids>>
    /\ UNCHANGED <<unique_ids, deploy_env, workflow_name, bucket, pc,
                   sorted_keys, run_results, ops, folded, success_map,
                   last_status, missing, failed, tmp_dir, staged>>
    /\ UNCHANGED <<envVars, yamlVars, fnVars>>

\* lines 282-296: the identifiers are rewritten for the environment
Rewrite ==
    /\ m_pc = "rewrite"
    /\ main_unique_ids' =
          IF Rewrites(environ.DEPLOY_ENV)
          THEN RewriteAll(main_unique_ids, environ.DEPLOY_ENV)
          ELSE main_unique_ids
    /\ m_pc' = "call"
    /\ UNCHANGED <<args_unique_ids, args_unique_id_yaml, default_exists,
                   environ, yaml_path>>
    /\ UNCHANGED <<flowVars, envVars, yamlVars, fnVars>>

\* lines 298-303: the call of assert_success
CallAssertSuccess ==
    /\ m_pc = "call"
    /\ pc = "idle"
    /\ m_pc' = "assert_success"
    /\ pc' = "start"
    /\ unique_ids' = [i \in DOMAIN main_unique_ids |-> Str(main_unique_ids[i])]
    /\ deploy_env' = environ.DEPLOY_ENV
    /\ workflow_name' = environ.WORKFLOW_NAME
    /\ UNCHANGED <<args_unique_ids, args_unique_id_yaml, default_exists,
                   environ, yaml_path, main_unique_ids>>
    /\ UNCHANGED <<bucket, sorted_keys, run_results, ops, folded, success_map,
                   last_status, missing, failed, message, tmp_dir, staged>>
    /\ UNCHANGED <<envVars, yamlVars, fnVars>>

\* the call of assert_success has ended, by its return or by an exception
CallEnded ==
    pc \in {"returned", "RuntimeError", "ValueError", "FileNotFoundError",
            "ClientError", "JSONDecodeError"}

\* lines 304-305: main returns 0, or the exception of assert_success leaves
\* main
EndMain ==
    /\ m_pc = "assert_success"
    /\ CallEnded
    /\ m_pc' = IF pc = "returned" THEN "return 0" ELSE pc
    /\ UNCHANGED <<args_unique_ids, args_unique_id_yaml, default_exists,
                   environ, yaml_path, main_unique_ids>>
    /\ UNCHANGED <<flowVars, envVars, yamlVars, fnVars>>

NextMain ==
    \/ ParseArgs
    \/ OpenYaml
    \/ NextYaml
    \/ YamlReturn
    \/ CheckResolved
    \/ Rewrite
    \/ CallAssertSuccess
    \/ Next
    \/ EndMain

SpecMain == InitMain /\ [][NextMain]_vars

(***************************************************************************)
(* Properties of main                                                      *)
(***************************************************************************)
\* main has ended, by its return or by an exception
MainEnded ==
    m_pc \in {"return 0", "SystemExit", "ValueError", "RuntimeError",
              "FileNotFoundError", "ClientError", "JSONDecodeError"}

\* C23: the remote object store is never mutated. In every run of main,
\* and so of assert_success, every operation on the artifact repository is a
\* listing of the target prefix or a download of an object of the bucket,
\* and no step changes the set of the objects of the bucket.
RemoteNeverMutated ==
    /\ [](\A i \in DOMAIN ops :
            \/ /\ ops[i].op = "list"
               /\ ops[i].prefix = TargetPrefix(deploy_env, workflow_name)
               /\ ops[i].listed \subseteq bucket
            \/ /\ ops[i].op = "download"
               /\ ops[i].key \in bucket)
    /\ [][bucket' = bucket]_vars

\* C23 witness: a run of main that listed the prefix, downloaded both
\* shards and returned
RemoteNeverMutatedWitness ==
    /\ m_pc = "return 0"
    /\ bucket = {ShardKey(2), ShardKey(10)}
    /\ Len(ops) = 3
    /\ ops[1].op = "list"
    /\ ops[3].op = "download"

\* a config-file path is in use: given by --unique-id-yaml, or the default
\* path exists
YamlInUse == args_unique_id_yaml # None \/ default_exists

\* the run ended before the identifiers were looked at (lines 222-260)
EndedAtStart ==
    \/ m_pc = "SystemExit"
    \/ m_pc = "ValueError" /\ message = UnknownLevelText

\* a config-file path is in use and DATASET_TARGET is absent or empty
TargetMissing == YamlInUse /\ Falsy(environ.DATASET_TARGET)

\* the command line gave no identifier
NoCliIds == ParseUniqueIds(args_unique_ids) = <<>>

\* the repository was not touched and assert_success was not called
NoRepositoryAccess == ops = <<>> /\ pc = "idle" /\ tmp_dir = None

\* C24: the configuration errors of main. When a config-file path is in use
\* and DATASET_TARGET is absent or empty, main raises ValueError; when
\* neither the command line nor the config file gave an identifier, main
\* raises ValueError; in both cases the repository is not accessed, and
\* assert_success (with its own check of the environment and the workflow,
\* its listing and its downloads) is reached only when both checks passed.
ConfigErrorsOfMain ==
    /\ (TargetMissing /\ m_pc \notin {"start", "yaml_path"} /\ ~EndedAtStart)
          => /\ m_pc = "ValueError"
             /\ message = DatasetTargetText
             /\ NoRepositoryAccess
    /\ (/\ ~TargetMissing
        /\ NoCliIds
        /\ YamlInUse => y_ids = <<>>
        /\ m_pc \notin {"start", "yaml_path", "yaml", "resolved"}
        /\ ~EndedAtStart)
          => /\ m_pc = "ValueError"
             /\ message = NoUniqueIdText
             /\ NoRepositoryAccess
    /\ ~NoRepositoryAccess
          => /\ ~TargetMissing
             /\ ~NoCliIds \/ (YamlInUse /\ y_ids # <<>>)
             /\ unique_ids # <<>>

\* C24 witness: the default path exists, DATASET_TARGET is not set, and main
\* raised although the command line gave an identifier
ConfigErrorsOfMainWitness ==
    /\ m_pc = "ValueError"
    /\ message = DatasetTargetText
    /\ args_unique_id_yaml = None
    /\ default_exists
    /\ environ.DATASET_TARGET = None
    /\ main_unique_ids = <<S_model_foo>>
    /\ ops = <<>>

\* the identifiers the run resolves: those of the command line, then those
\* of the config file
Resolved ==
    ParseUniqueIds(args_unique_ids) \o (IF YamlInUse THEN y_ids ELSE <<>>)

\* the resolved identifiers after the rewriting for the environment
Rewritten ==
    LET env == environ.DEPLOY_ENV
    IN  [i \in DOMAIN Resolved |->
            IF env \notin {None, "", "prod"}
            THEN ApplyEnvToModelId(Resolved[i], CharsOf(env))
            ELSE Resolved[i]]

\* the keys are in ascending order
Ascending(keys) ==
    \A i \in 1..(Len(keys) - 1) : StrLess(keys[i], keys[i + 1])

\* the downloads that gave a parsed document
ParsedOps == SelectSeq(ops, LAMBDA o : o.op = "download" /\ o.outcome = "ok")

\* the reconciliation has begun: a document was folded or a verdict issued
Reconciling ==
    \/ folded > 0
    \/ last_status # EmptyDict
    \/ missing # <<>> \/ failed # <<>>
    \/ pc \in {"returned", "RuntimeError"}

\* the call of assert_success has just been made
JustCalled == pc = "start"

\* the listing has just been made and gave selected keys
JustListed == pc = "download" /\ ops[Len(ops)].op = "list"

\* C25: the order of the phases of a run of main. The identifiers of the
\* command line come first in the list and those of the config file after
\* them; the list given to assert_success is the resolved list, each
\* identifier rewritten for the environment when the label is non-empty and
\* not "prod", with the same count and order, and it stays as given; the
\* repository is accessed only after that; the selected keys are put in
\* ascending order, as strings, once; the artifacts are downloaded one at a
\* time in that order, each parsed before the next is downloaded; and no status is
\* folded and no verdict issued before every selected artifact is
\* downloaded and parsed.
PhaseOrder ==
    /\ [](/\ m_pc = "yaml" => main_unique_ids = ParseUniqueIds(args_unique_ids)
          /\ m_pc = "rewrite" => main_unique_ids = Resolved
          /\ m_pc = "call" => main_unique_ids = Rewritten
          /\ pc # "idle"
                => m_pc \notin {"start", "yaml_path", "yaml", "resolved",
                                "rewrite", "call"}
          /\ JustCalled
                => /\ Len(unique_ids) = Len(Resolved)
                   /\ \A i \in DOMAIN unique_ids :
                         unique_ids[i] = Str(Rewritten[i])
          /\ ops # <<>> => pc \notin {"idle", "start"}
          /\ JustListed
                => /\ Ascending(sorted_keys)
                   /\ Range(sorted_keys) =
                         {k \in ops[1].listed : Selected(k)}
          /\ \A i \in DOMAIN DownloadedKeys :
                DownloadedKeys[i] = sorted_keys[i]
          /\ Len(ParsedOps) = Len(run_results)
          /\ Len(DownloadedKeys) - Len(run_results) \in {0, 1}
          /\ Reconciling
                => /\ Len(run_results) = Len(sorted_keys)
                   /\ Len(DownloadedKeys) = Len(sorted_keys))
    /\ [][/\ pc # "idle" => unique_ids' = unique_ids
          /\ pc \notin {"idle", "start", "list"} => sorted_keys' = sorted_keys
          /\ DownloadStep => Len(run_results) = Len(DownloadedKeys)]_vars

\* C25 witness: a run that resolved two identifiers from the command line
\* and one from the config file, rewrote the second for dev, downloaded and
\* parsed both shards, and then gave its verdict
PhaseOrderWitness ==
    /\ m_pc = "RuntimeError"
    /\ args_unique_ids = <<S_two_ids>>
    /\ unique_ids = <<"model.foo", "model.db.t_dev_dbt__x", "y">>
    /\ Len(run_results) = 2
    /\ folded = 2

(***************************************************************************)
(* The reconciliation of assert_success on one list of documents in two    *)
(* orders                                                                  *)
(***************************************************************************)
\* lines 184-192: the fold of the documents, in list order
RECURSIVE FoldDocs(_, _, _)
FoldDocs(st, docs, ids) ==
    IF docs = <<>> THEN st
    ELSE FoldDocs(FoldIds(st, IndexStatuses(Head(docs)), ids), Tail(docs), ids)

\* lines 174-217: what assert_success makes of the documents it was
\* returned: its outcome and the lists missing and failed
Reconcile(ids, docs) ==
    LET st == FoldDocs([last |-> EmptyDict,
                        succ |-> [u \in Range(ids) |-> FALSE]], docs, ids)
        miss == MissingOf(ids, st.last)
        fail == FailedOf(ids, st.last, st.succ)
    IN  [outcome |-> IF Raises(miss, fail) THEN "RuntimeError" ELSE "returned",
         missing |-> miss,
         failed |-> fail]

\* the documents: one record each, no results array, or the same identifier
\* twice
OrderDocs ==
    {[results |-> <<r>>] : r \in RecordSet}
        \cup {[metadata |-> "m"],
              [results |-> <<[unique_id |-> "model.foo", status |-> "success"],
                             [unique_id |-> "model.foo", status |-> "error"]>>]}

\* the documents docs in the order p
Permuted(docs, p) == [i \in DOMAIN docs |-> docs[p[i]]]

\* two calls of assert_success with the same identifiers: the download
\* returns the same documents, in the order given and in another order
InitOrder ==
    /\ unique_ids = <<>>
    /\ deploy_env = None
    /\ workflow_name = None
    /\ bucket = {}
    /\ FlowIdle
    /\ MainIdle
    /\ EnvIdle
    /\ YamlIdle
    /\ fn_pc = "call"
    /\ fn_name = "assert_success"
    /\ \E ids \in SeqsUpTo(Ids, MaxIds), docs \in SeqsUpTo(OrderDocs, MaxDocs) :
         \E p \in Listings(DOMAIN docs) :
            fn_arg = [unique_ids |-> ids,
                      run_results_list |-> docs,
                      reordered |-> Permuted(docs, p)]
    /\ fn_ret = <<>>

\* lines 184-217: both calls end
ReconcileBoth ==
    /\ fn_pc = "call"
    /\ fn_name = "assert_success"
    /\ fn_ret' = <<Reconcile(fn_arg.unique_ids, fn_arg.run_results_list),
                   Reconcile(fn_arg.unique_ids, fn_arg.reordered)>>
    /\ fn_pc' = "done"
    /\ UNCHANGED <<fn_name, fn_arg>>
    /\ UNCHANGED <<flowVars, envVars, yamlVars, mainVars>>

NextOrder == ReconcileBoth

SpecOrder == InitOrder /\ [][NextOrder]_vars

\* the identifiers of a list of (unique_id, status) pairs
IdsOf(pairs) == [i \in DOMAIN pairs |-> pairs[i][1]]

\* C26: the verdict does not depend on the order of the documents. For the
\* same identifiers and the same documents in two orders, assert_success
\* has the same outcome (return or validation error), the same missing
\* identifiers and the same failed identifiers; only the status shown with
\* a failed identifier can differ.
VerdictOrderIndependent ==
    fn_pc = "done" =>
        /\ fn_ret[1].outcome = fn_ret[2].outcome
        /\ fn_ret[1].missing = fn_ret[2].missing
        /\ IdsOf(fn_ret[1].failed) = IdsOf(fn_ret[2].failed)

\* C26 witness: two orders of two documents that end with the validation
\* error and show different statuses for the failed identifier
VerdictOrderWitness ==
    /\ fn_pc = "done"
    /\ fn_arg.run_results_list # fn_arg.reordered
    /\ fn_ret[1].outcome = "RuntimeError"
    /\ fn_ret[1].failed # fn_ret[2].failed

(***************************************************************************)
(* The end of the scan of _parse_unique_ids_yaml                           *)
(***************************************************************************)
\* the scan ended at line e: e is the last line read
EndedAt(e) == y_pc = "done" /\ Len(y_read) = e

\* C27: the scan stops at the end of the first target block. Once a - name:
\* line whose normalized name equals the target has been read (it opens the
\* target block) and a later - name: line with indentation <= that line's
\* is read, the scan ends there: no later line is read or contributes, so a
\* second block of the same name further down adds nothing. And whenever
\* identifiers have been appended, the line they came from was read inside
\* a block whose name matched the target.
ScanStopsAfterFirstBlock ==
    /\ \A n, e \in DOMAIN y_read :
         (/\ n < e
          /\ IsTargetName(n)
          /\ IsNameLine(e)
          /\ LeadOf(e) <= LeadOf(n))
            => /\ EndedAt(e)
               /\ \A k \in DOMAIN y_src : y_src[k] < e
    /\ \A k \in DOMAIN y_src :
         \E n \in 1..(y_src[k] - 1) :
            /\ IsTargetName(n)
            /\ \A j \in (n + 1)..y_src[k] : ~IsNameLine(j)

====
